---- MODULE Spec2Model ----
(***************************************************************************)
(* Unwind-information synthesis of wasm2obj: the .debug_frame encoder      *)
(* (lib/debug/src/frame.rs), the frame-layout extractor and the parallel   *)
(* compile driver (lib/environ/src/cranelift.rs).                          *)
(*                                                                         *)
(* Machine words wider than TLC's integers are little-endian byte          *)
(* sequences: a u64/usize is 8 bytes, a u32 is 4 bytes.  Signed inputs     *)
(* (isize) are small integers, converted by AsU64 as `as u64` converts.    *)
(***************************************************************************)
EXTENDS Integers, Sequences, FiniteSets, TLC

\* ------------------------------------------------------------------ bounds
\* most functions handed to one get_debug_frame_bytes call
MaxFuncs == 2
\* most frame-layout commands over all functions of one call
MaxCmds == 2

\* get_frame_layout is run on functions of at most MaxEbbs blocks and
\* MaxInsts instructions
MaxEbbs == 2
MaxInsts == 3

\* FDEEntry::write is run on entries of at most MaxInstrs instructions
MaxInstrs == 2

\* a RelocSink receives at most MaxRelocs calls
MaxRelocs == 2

\* ------------------------------------------------------- machine integers
U64Zero == [k \in 1..8 |-> 0]

\* a small natural as u32 / u64 (little endian)
U32Of(n) == <<n % 256, (n \div 256) % 256, (n \div 65536) % 256, (n \div 16777216) % 256>>

U64Of(n) == U32Of(n) \o <<0, 0, 0, 0>>

\* `x as u64` for an isize x: two's complement
AsU64(i) == IF i >= 0 THEN U64Of(i) ELSE [k \in 1..8 |-> 255 - U64Of((-i) - 1)[k]]

\* `x as u32` for a usize x: the low 32 bits
AsU32(w) == SubSeq(w, 1, 4)

\* `x as u8` for a u32 x: the low 8 bits
AsU8(w) == w[1]

\* x < 0x40 for a u32 x
U32Below0x40(w) == w[2] = 0 /\ w[3] = 0 /\ w[4] = 0 /\ w[1] < 64

\* x >> 7 for a u64 x
Shr7(v) == [k \in 1..8 |-> (v[k] \div 128) + (IF k < 8 THEN (v[k + 1] % 128) * 2 ELSE 0)]

RECURSIVE BitOr(_, _)
BitOr(a, b) ==
  IF a = 0 /\ b = 0 THEN 0
  ELSE (IF a % 2 = 1 \/ b % 2 = 1 THEN 1 ELSE 0) + 2 * BitOr(a \div 2, b \div 2)

RECURSIVE BitAnd(_, _)
BitAnd(a, b) ==
  IF a = 0 \/ b = 0 THEN 0
  ELSE (IF a % 2 = 1 /\ b % 2 = 1 THEN 1 ELSE 0) + 2 * BitAnd(a \div 2, b \div 2)

\* Rust's truncating % and / on isize
RustRem(a, b) ==
  LET aa == IF a < 0 THEN -a ELSE a
      bb == IF b < 0 THEN -b ELSE b
  IN  IF a < 0 THEN -(aa % bb) ELSE aa % bb

RustDiv(a, b) ==
  LET aa == IF a < 0 THEN -a ELSE a
      bb == IF b < 0 THEN -b ELSE b
      q  == aa \div bb
  IN  IF (a < 0) = (b < 0) THEN q ELSE -q

\* ------------------------------------------------------------ LEB128 (gimli)
\* the low seven bits alone, whatever the value
write_uleb128_low(val) == <<val[1] % 128>>

RECURSIVE write_uleb128(_)
write_uleb128(val) ==
  LET byte == val[1] % 128
      rest == Shr7(val)
  IN  IF rest = U64Zero THEN <<byte>> ELSE <<byte + 128>> \o write_uleb128(rest)

RECURSIVE write_sleb128(_)
write_sleb128(val) ==
  LET byte == val % 128
      rest == (val - byte) \div 128
      done == (rest = 0 /\ byte < 64) \/ (rest = -1 /\ byte >= 64)
  IN  IF done THEN <<byte>> ELSE <<byte + 128>> \o write_sleb128(rest)

\* ------------------------------------------------------ gimli::X86_64 names
X86_64_RAX == 0
X86_64_RDX == 1
X86_64_RCX == 2
X86_64_RBX == 3
X86_64_RSI == 4
X86_64_RDI == 5
X86_64_RBP == 6
X86_64_RSP == 7
X86_64_RA == 16

\* ----------------------------------------------------- CallFrameInstruction
AdvanceLoc(d) == [kind |-> "AdvanceLoc", delta |-> d]
DefCfa(r, o) == [kind |-> "DefCfa", register |-> r, offset |-> o]
DefCfaRegister(r) == [kind |-> "DefCfaRegister", register |-> r]
DefCfaOffset(o) == [kind |-> "DefCfaOffset", offset |-> o]
Offset(r, f) == [kind |-> "Offset", register |-> r, factored_offset |-> f]

\* the two assertions of CallFrameInstruction::write
CfiAccepted(instr) ==
  CASE instr.kind = "AdvanceLoc" -> U32Below0x40(instr.delta)
    [] instr.kind = "Offset" -> instr.register < 64
    [] OTHER -> TRUE

\* DW_CFA_def_cfa_register and DW_CFA_def_cfa_offset with each other's opcode
CfiBytesSwapped(instr) ==
  CASE instr.kind = "AdvanceLoc" -> <<BitOr(64, AsU8(instr.delta))>>
    [] instr.kind = "DefCfa" ->
         <<12>> \o write_uleb128(U64Of(instr.register)) \o write_uleb128(instr.offset)
    [] instr.kind = "DefCfaRegister" -> <<14>> \o write_uleb128(U64Of(instr.register))
    [] instr.kind = "DefCfaOffset" -> <<13>> \o write_uleb128(instr.offset)
    [] instr.kind = "Offset" ->
         <<BitOr(128, instr.register % 256)>> \o write_uleb128(instr.factored_offset)

\* the bytes CallFrameInstruction::write appends (for an accepted instruction)
CfiBytes(instr) ==
  CASE instr.kind = "AdvanceLoc" -> <<BitOr(64, AsU8(instr.delta))>>
    [] instr.kind = "DefCfa" ->
         <<12>> \o write_uleb128(U64Of(instr.register)) \o write_uleb128(instr.offset)
    [] instr.kind = "DefCfaRegister" -> <<13>> \o write_uleb128(U64Of(instr.register))
    [] instr.kind = "DefCfaOffset" -> <<14>> \o write_uleb128(instr.offset)
    [] instr.kind = "Offset" ->
         <<BitOr(128, instr.register % 256)>> \o write_uleb128(instr.factored_offset)

\* an instruction stream that is never empty: a nop stands for no instruction
RECURSIVE WriteEach(_, _)
WriteEach(writer, instrs) ==
  IF instrs = <<>> THEN [ok |-> TRUE, writer |-> writer]
  ELSE IF ~CfiAccepted(Head(instrs)) THEN [ok |-> FALSE, writer |-> writer]
  ELSE WriteEach(writer \o CfiBytes(Head(instrs)), Tail(instrs))

WriteInstrsOrNop(writer, instrs) ==
  IF instrs = <<>> THEN [ok |-> TRUE, writer |-> Append(writer, 0)]
  ELSE WriteEach(writer, instrs)

\* writing a list of instructions: the bytes appended until the first one
\* that is refused, and whether all were accepted
RECURSIVE WriteInstrs(_, _)
WriteInstrs(writer, instrs) ==
  IF instrs = <<>> THEN [ok |-> TRUE, writer |-> writer]
  ELSE IF ~CfiAccepted(Head(instrs)) THEN [ok |-> FALSE, writer |-> writer]
  ELSE WriteInstrs(writer \o CfiBytes(Head(instrs)), Tail(instrs))

DW_CFA_nop == 0

\* pad_with_nop with tail_len = len & (align - 1)
pad_with_nop_len(writer, len, align) ==
  writer \o [k \in 1..BitAnd(len % 256, align - 1) |-> DW_CFA_nop]

\* tail_len = (!len + 1) & (align - 1), then that many DW_CFA_nop
pad_with_nop(writer, len, align) ==
  LET neg == (256 - (len % 256)) % 256
      tail_len == BitAnd(neg, align - 1)
  IN  writer \o [k \in 1..tail_len |-> DW_CFA_nop]

\* writer.write_u32_at(pos, v); positions count from 0
write_u32_at(writer, pos, v) ==
  [k \in 1..Len(writer) |->
     IF k > pos /\ k <= pos + 4 THEN U32Of(v)[k - pos] ELSE writer[k]]

\* the relocation at the start of the entry instead
FdeRelocAtStart(writer) == Len(writer) - 8

\* relocs.push(writer.len()): the offset recorded for the initial_location
\* field, writer being the buffer up to that field
FdeRelocAt(writer) == Len(writer)

\* FDEEntry::write; on a failed assertion, ok is FALSE and writer holds what
\* had been written by then
FDEEntry_write(fde, writer, cie_ptr, address_size, rl) ==
  LET pos == Len(writer)
      w1  == writer \o U32Of(0) \o U32Of(cie_ptr)
      rl1 == Append(rl, FdeRelocAt(w1))
      w2  == w1 \o fde.initial_location \o fde.address_range
      wi  == WriteInstrs(w2, fde.instructions)
      w3  == pad_with_nop(wi.writer, Len(wi.writer) - pos, address_size)
      w4  == write_u32_at(w3, pos, (Len(w3) - pos) - 4)
  IN  IF address_size # 8 THEN [ok |-> FALSE, writer |-> w1, relocs |-> rl1]
      ELSE IF ~wi.ok THEN [ok |-> FALSE, writer |-> wi.writer, relocs |-> rl1]
      ELSE [ok |-> TRUE, writer |-> w4, relocs |-> rl1]

\* the CIE get_debug_frame_bytes builds; CIE_ID is 0xFFFFFFFF
CIE_ID == <<255, 255, 255, 255>>

CieFor(address_size) ==
  [version |-> 4, aug |-> "", address_size |-> address_size,
   segment_selector_size |-> 0, code_alignment_factor |-> U64Of(1),
   data_alignment_factor |-> -8, return_address_register |-> X86_64_RA,
   initial_instructions |-> <<DefCfa(X86_64_RSP, U64Of(8)), Offset(X86_64_RA, U64Of(1))>>]

\* CIEEntry::write up to the loop over the FDEs
CIEEntry_write(cie, writer) ==
  LET pos == Len(writer)
      w1  == writer \o U32Of(0) \o CIE_ID \o <<cie.version, 0, cie.address_size,
                                                cie.segment_selector_size>>
                    \o write_uleb128(cie.code_alignment_factor)
                    \o write_sleb128(cie.data_alignment_factor)
                    \o write_uleb128(U64Of(cie.return_address_register))
      wi  == WriteInstrs(w1, cie.initial_instructions)
      w3  == pad_with_nop(wi.writer, Len(wi.writer) - pos, cie.address_size)
      w4  == write_u32_at(w3, pos, (Len(w3) - pos) - 4)
  IN  IF ~wi.ok THEN [ok |-> FALSE, writer |-> wi.writer]
      ELSE [ok |-> TRUE, writer |-> w4]

\* ------------------------------------------------------- register translator
\* isa.register_info().display_regunit(reg) of the x86 backend, for the
\* register units used here
display_regunit(reg) ==
  CASE reg = 0 -> "%rax" [] reg = 1 -> "%rcx" [] reg = 2 -> "%rdx"
    [] reg = 3 -> "%rbx" [] reg = 4 -> "%rsp" [] reg = 5 -> "%rbp"
    [] reg = 6 -> "%rsi" [] reg = 7 -> "%rdi" [] reg = 8 -> "%r8"
    [] OTHER -> "%xmm0"

X86Names == {"%rax", "%rdx", "%rcx", "%rbx", "%rsi", "%rdi", "%rbp", "%rsp", "%r16"}

\* the match of map_reg
X86NameTable(name) ==
  CASE name = "%rax" -> X86_64_RAX [] name = "%rdx" -> X86_64_RDX
    [] name = "%rcx" -> X86_64_RCX [] name = "%rbx" -> X86_64_RBX
    [] name = "%rsi" -> X86_64_RSI [] name = "%rdi" -> X86_64_RDI
    [] name = "%rbp" -> X86_64_RBP [] name = "%rsp" -> X86_64_RSP
    [] name = "%r16" -> X86_64_RA

\* REG_X86_MAP is None or Some(map)
CacheNone == [some |-> FALSE, map |-> << >>]

\* a cache that answers a hit with the register unit it was asked about
map_reg_hit_unit(cache, isa, reg) ==
  LET c0 == IF cache.some THEN cache ELSE [some |-> TRUE, map |-> << >>]
      name == display_regunit(reg)
  IN  IF reg \in DOMAIN c0.map THEN [ok |-> TRUE, val |-> reg, cache |-> c0]
      ELSE IF isa.name # "x86" \/ name \notin X86Names
      THEN [ok |-> FALSE, val |-> 0, cache |-> c0]
      ELSE [ok |-> TRUE, val |-> X86NameTable(name),
            cache |-> [some |-> TRUE, map |-> (reg :> X86NameTable(name)) @@ c0.map]]

\* map_reg: the value returned (when ok) and the cache it leaves
map_reg(cache, isa, reg) ==
  LET c0 == IF cache.some THEN cache ELSE [some |-> TRUE, map |-> << >>]
      name == display_regunit(reg)
  IN  IF reg \in DOMAIN c0.map THEN [ok |-> TRUE, val |-> c0.map[reg], cache |-> c0]
      ELSE IF isa.name # "x86" THEN [ok |-> FALSE, val |-> 0, cache |-> c0]
      ELSE IF name \notin X86Names THEN [ok |-> FALSE, val |-> 0, cache |-> c0]
      ELSE [ok |-> TRUE, val |-> X86NameTable(name),
            cache |-> [some |-> TRUE, map |-> (reg :> X86NameTable(name)) @@ c0.map]]

\* ------------------------------------------------------------- CFA tracker
\* the comparison with one test, register or offset changed
CfaChangeOr(mapped, offset, reg, off) ==
  IF mapped # reg \/ offset # off THEN "DefCfa" ELSE "none"

\* a tracker that tests the offset first and the register only when the
\* offset is the tracked one
CfaChangeOffsetFirst(mapped, offset, reg, off) ==
  IF offset # off THEN "DefCfaOffset"
  ELSE IF mapped # reg THEN "DefCfaRegister"
  ELSE "none"

\* which instruction a CallFrameAddressAt{reg, offset} yields, given the
\* tracked (cfa_def_reg, cfa_def_offset)
CfaChange(mapped, offset, reg, off) ==
  IF mapped # reg /\ offset # off THEN "DefCfa"
  ELSE IF offset # off THEN "DefCfaOffset"
  ELSE IF mapped # reg THEN "DefCfaRegister"
  ELSE "none"

\* assert!(cfa_offset % -8 == 0) without the remainder test
RegAtAlignedAny(cfa_offset) == TRUE

\* assert!(cfa_offset % -8 == 0)
RegAtAligned(cfa_offset) == RustRem(cfa_offset, -8) = 0

\* `*delta as u32` read as a saturating conversion
MoveDeltaSaturating(delta) ==
  IF SubSeq(delta, 5, 8) = <<0, 0, 0, 0>> THEN SubSeq(delta, 1, 4) ELSE <<255, 255, 255, 255>>

\* `*delta as u32`
MoveDelta(delta) == AsU32(delta)

\* one iteration of the loop over layout.commands: the instruction pushed
\* (none after `continue`), the tracked state and the cache after it; ok is
\* FALSE when an assertion or map_reg panics
TranslateCommand(cmd, reg, off, cache, isa) ==
  CASE cmd.kind = "MoveLocationBy" ->
         [ok |-> TRUE, emit |-> <<AdvanceLoc(MoveDelta(cmd.delta))>>,
          reg |-> reg, off |-> off, cache |-> cache, touched |-> FALSE]
    [] cmd.kind = "CallFrameAddressAt" ->
         LET m == map_reg(cache, isa, cmd.reg)
             offset == AsU64(cmd.offset)
             change == CfaChange(m.val, offset, reg, off)
         IN  IF ~m.ok THEN [ok |-> FALSE, emit |-> <<>>, reg |-> reg, off |-> off,
                            cache |-> m.cache, touched |-> TRUE]
             ELSE CASE change = "DefCfa" ->
                         [ok |-> TRUE, emit |-> <<DefCfa(m.val, offset)>>,
                          reg |-> m.val, off |-> offset, cache |-> m.cache, touched |-> TRUE]
                    [] change = "DefCfaOffset" ->
                         [ok |-> TRUE, emit |-> <<DefCfaOffset(offset)>>,
                          reg |-> reg, off |-> offset, cache |-> m.cache, touched |-> TRUE]
                    [] change = "DefCfaRegister" ->
                         [ok |-> TRUE, emit |-> <<DefCfaRegister(m.val)>>,
                          reg |-> m.val, off |-> off, cache |-> m.cache, touched |-> TRUE]
                    [] OTHER ->
                         [ok |-> TRUE, emit |-> <<>>, reg |-> reg, off |-> off,
                          cache |-> m.cache, touched |-> TRUE]
    [] cmd.kind = "RegAt" ->
         IF ~RegAtAligned(cmd.cfa_offset)
         THEN [ok |-> FALSE, emit |-> <<>>, reg |-> reg, off |-> off, cache |-> cache,
               touched |-> FALSE]
         ELSE LET factored_offset == AsU64(RustDiv(cmd.cfa_offset, -8))
                  m == map_reg(cache, isa, cmd.reg)
              IN  IF ~m.ok THEN [ok |-> FALSE, emit |-> <<>>, reg |-> reg, off |-> off,
                                 cache |-> m.cache, touched |-> TRUE]
                  ELSE [ok |-> TRUE, emit |-> <<Offset(m.val, factored_offset)>>,
                        reg |-> reg, off |-> off, cache |-> m.cache, touched |-> TRUE]

\* --------------------------------------------------------------- the state
VARIABLES
  pc,              \* position of the main thread
  isa,             \* [name, pointer_bytes] of the TargetIsa
  funcs,           \* get_debug_frame_bytes: f.1 (code length) per function
  layouts,         \* get_debug_frame_bytes: FrameLayout per function
  REG_X86_MAP,     \* the static of map_reg
  fi,              \* index into funcs (enumerate), from 1
  ci,              \* index into layout.commands, from 1
  cfa_def_reg,
  cfa_def_offset,
  instructions,    \* the Vec the command loop pushes to
  fde_entries,     \* cie.fde_entries
  writer,          \* the EndianVec `result`
  relocs,
  entry_pos,       \* `pos` of every entry written so far
  returned,        \* what get_debug_frame_bytes returned: none, or Ok((bytes, relocs))
  racers,          \* the threads that touched REG_X86_MAP since the last fork or join
  bodies,          \* compile_module: function_body_inputs
  generate_debug_info,
  task,            \* compile_module: the state of the parallel task of each function
  slots,           \* compile_module: the Vec the parallel collect fills
  completed,       \* compile_module: how many tasks have delivered an Ok item
  saved_error,     \* compile_module: the error the parallel collect keeps
  cm_ret,          \* what compile_module returned
  gl_func,         \* get_frame_layout: the blocks of context.func, in layout order
  gl_todo,         \* get_frame_layout: the instructions the loops have yet to visit
  last_offset,     \* get_frame_layout: last_offset
  result,          \* get_frame_layout: result
  run,             \* how many times the operation under study has been started
  first,           \* the outcome of its first run
  sink_calls,      \* RelocSink: the calls compile_and_emit has yet to make
  func_relocs,     \* RelocSink: func_relocs
  debug_assertions, \* whether the build checks debug_assert!
  hm_log,          \* handle_module: the stages it has entered, in order
  output_file,     \* handle_module: the file named by output
  hm_ret           \* what handle_module returned

vars == <<pc, isa, funcs, layouts, REG_X86_MAP, fi, ci, cfa_def_reg, cfa_def_offset,
          instructions, fde_entries, writer, relocs, entry_pos, returned, racers,
          bodies, generate_debug_info, task, slots, completed, saved_error, cm_ret,
          gl_func, gl_todo, last_offset, result, run, first, sink_calls, func_relocs,
          debug_assertions, hm_log, output_file, hm_ret>>

cmVars == <<bodies, generate_debug_info, task, slots, completed, saved_error, cm_ret>>

glVars == <<gl_func, gl_todo, last_offset, result>>

runVars == <<run, first>>

sinkVars == <<sink_calls, func_relocs, debug_assertions>>

hmVars == <<hm_log, output_file, hm_ret>>

encLocals == <<fi, ci, cfa_def_reg, cfa_def_offset, instructions, fde_entries, writer,
               relocs, entry_pos, returned>>

NoReturn == [kind |-> "none"]
NoError == [some |-> FALSE]

\* the thread that runs handle_module; the parallel task of function i is i
MainThread == 0

\* ------------------------------------------------------------------ inputs
IsaX86_64 == [name |-> "x86", pointer_bytes |-> 8]
IsaX86_32 == [name |-> "x86", pointer_bytes |-> 4]
IsaArm64 == [name |-> "arm64", pointer_bytes |-> 8]
IsaSet == {IsaX86_64, IsaX86_32, IsaArm64}

CallConvSet == {"SystemV", "WindowsFastcall"}
\* no convention is refused
AnyCallConv(cc) == TRUE

\* the assertion of lines 232-236
SupportedCallConv(cc) == cc = "Fast" \/ cc = "Cold" \/ cc = "SystemV"

\* f.1, the code length of function i of the caller's funcs
FLen(i) == IF i % 2 = 1 THEN 258 ELSE 5

MoveLocationBy(d) == [kind |-> "MoveLocationBy", delta |-> d]
CallFrameAddressAt(r, o) == [kind |-> "CallFrameAddressAt", reg |-> r, offset |-> o]
RegAt(r, o) == [kind |-> "RegAt", reg |-> r, cfa_offset |-> o]

\* 2^32 + 5 as a usize
Delta2p32Plus5 == <<5, 0, 0, 0, 1, 0, 0, 0>>

CmdSet ==
  {MoveLocationBy(U64Of(5)), MoveLocationBy(U64Of(63)), MoveLocationBy(U64Of(64)),
   MoveLocationBy(Delta2p32Plus5)}
  \cup {CallFrameAddressAt(r, o) : r \in {4, 5}, o \in {8, 16}}
  \cup {CallFrameAddressAt(4, -8)}
  \cup {RegAt(5, -16), RegAt(5, -15), RegAt(5, 8), RegAt(16, -16)}

RECURSIVE SumLen(_)
SumLen(ls) == IF ls = <<>> THEN 0 ELSE Len(Head(ls).commands) + SumLen(Tail(ls))

\* the state after construction: a call of get_debug_frame_bytes(funcs, isa,
\* layouts) is about to start, with one layout per function.  The commands
\* of each layout are read front to back, and chosen when the command loop
\* reaches them.
InitEnc ==
  /\ pc = "enc_start"
  /\ isa \in IsaSet
  /\ \E n \in 0..MaxFuncs :
       /\ funcs = [i \in 1..n |-> FLen(i)]
       /\ \E cc \in [1..n -> CallConvSet] :
            layouts = [i \in 1..n |-> [call_conv |-> cc[i], commands |-> <<>>]]
  /\ REG_X86_MAP = CacheNone
  /\ fi = 1 /\ ci = 1
  /\ cfa_def_reg = X86_64_RSP /\ cfa_def_offset = U64Of(8)
  /\ instructions = <<>> /\ fde_entries = <<>>
  /\ writer = <<>> /\ relocs = <<>> /\ entry_pos = <<>>
  /\ returned = NoReturn
  /\ racers = {}
  /\ bodies = <<>> /\ generate_debug_info = TRUE
  /\ task = <<>> /\ slots = <<>> /\ completed = 0
  /\ saved_error = NoError /\ cm_ret = NoReturn
  /\ gl_func = <<>> /\ gl_todo = <<>> /\ last_offset = 0 /\ result = <<>>
  /\ run = 1 /\ first = NoReturn
  /\ sink_calls = <<>> /\ func_relocs = <<>> /\ debug_assertions = TRUE
  /\ hm_log = <<>> /\ output_file = "absent" /\ hm_ret = NoReturn

\* ------------------------------------------------- get_debug_frame_bytes
\* lines 229-260: the assertions on the isa and the calling conventions
EncStart ==
  /\ pc = "enc_start"
  /\ pc' = IF isa.name = "x86" /\ \A i \in 1..Len(layouts) : SupportedCallConv(layouts[i].call_conv)
           THEN "func_loop" ELSE "panic"
  /\ fi' = 1
  /\ UNCHANGED <<isa, funcs, layouts, REG_X86_MAP, ci, cfa_def_reg, cfa_def_offset,
                 instructions, fde_entries, writer, relocs, entry_pos, returned>>
  /\ UNCHANGED <<racers, cmVars>>
  /\ UNCHANGED glVars
  /\ UNCHANGED <<runVars, sinkVars, hmVars>>

\* lines 262-267: the head of the loop over funcs
FuncBegin ==
  /\ pc = "func_loop" /\ fi <= Len(funcs)
  /\ cfa_def_reg' = X86_64_RSP
  /\ cfa_def_offset' = U64Of(8)
  /\ instructions' = <<>>
  /\ ci' = 1
  /\ pc' = IF fi <= Len(layouts) THEN "cmd_loop" ELSE "panic"
  /\ UNCHANGED <<isa, funcs, layouts, REG_X86_MAP, fi, fde_entries, writer, relocs,
                 entry_pos, returned>>
  /\ UNCHANGED <<racers, cmVars>>
  /\ UNCHANGED glVars
  /\ UNCHANGED <<runVars, sinkVars, hmVars>>

\* the effect of one iteration of the command loop on cmd
Translate(cmd) ==
  LET t == TranslateCommand(cmd, cfa_def_reg, cfa_def_offset, REG_X86_MAP, isa)
  IN  /\ REG_X86_MAP' = t.cache
      /\ cfa_def_reg' = t.reg
      /\ cfa_def_offset' = t.off
      /\ instructions' = instructions \o t.emit
      /\ ci' = IF t.ok THEN ci + 1 ELSE ci
      /\ pc' = IF t.ok THEN "cmd_loop" ELSE "panic"
      /\ racers' = IF t.touched THEN racers \cup {MainThread} ELSE racers
      /\ UNCHANGED <<isa, funcs, fi, fde_entries, writer, relocs, entry_pos, returned>>
      /\ UNCHANGED cmVars
      /\ UNCHANGED glVars
      /\ UNCHANGED <<runVars, sinkVars, hmVars>>

\* lines 268-304, the layout of function fi has one more command
TranslateNext ==
  /\ pc = "cmd_loop" /\ ci = Len(layouts[fi].commands) + 1
  /\ SumLen(layouts) < MaxCmds
  /\ \E cmd \in CmdSet :
       /\ layouts' = [layouts EXCEPT ![fi].commands = Append(@, cmd)]
       /\ Translate(cmd)

\* lines 306-312: the layout has no more commands
FuncEnd ==
  /\ pc = "cmd_loop" /\ ci = Len(layouts[fi].commands) + 1
  /\ fde_entries' = Append(fde_entries,
       [initial_location |-> U64Of(0), address_range |-> U64Of(funcs[fi]),
        instructions |-> instructions])
  /\ fi' = fi + 1
  /\ pc' = "func_loop"
  /\ UNCHANGED <<isa, funcs, layouts, REG_X86_MAP, ci, cfa_def_reg, cfa_def_offset,
                 instructions, writer, relocs, entry_pos, returned>>
  /\ UNCHANGED <<racers, cmVars>>
  /\ UNCHANGED glVars
  /\ UNCHANGED <<runVars, sinkVars, hmVars>>

\* CIEEntry::write lines 174-177: the FDEs, each at the end of the buffer
RECURSIVE WriteFdes(_, _, _, _, _, _)
WriteFdes(fdes, w, cie_ptr, address_size, rl, ep) ==
  IF fdes = <<>> THEN [ok |-> TRUE, writer |-> w, relocs |-> rl, entry_pos |-> ep]
  ELSE LET r == FDEEntry_write(Head(fdes), w, cie_ptr, address_size, rl)
       IN  IF ~r.ok
           THEN [ok |-> FALSE, writer |-> r.writer, relocs |-> r.relocs,
                 entry_pos |-> Append(ep, Len(w))]
           ELSE WriteFdes(Tail(fdes), r.writer, cie_ptr, address_size, r.relocs,
                          Append(ep, Len(w)))

\* the end of the CIE taken for its start
cie_ptr_end(pos, len) == len

\* let cie_ptr = pos as u32, with len the buffer length once the CIE is written
cie_ptr_of(pos, len) == pos

\* DebugFrameTable::write for the one CIE with its FDEs, on an empty buffer
DebugFrameTable_write(cie, fdes) ==
  LET pos == 0
      c == CIEEntry_write(cie, <<>>)
  IN  IF ~c.ok THEN [ok |-> FALSE, writer |-> c.writer, relocs |-> <<>>, entry_pos |-> <<pos>>]
      ELSE WriteFdes(fdes, c.writer, cie_ptr_of(pos, Len(c.writer)), cie.address_size,
                     <<>>, <<pos>>)

\* lines 315-321: funcs is exhausted; serialize the table and return
WriteTable ==
  /\ pc = "func_loop" /\ fi = Len(funcs) + 1
  /\ LET w == DebugFrameTable_write(CieFor(isa.pointer_bytes), fde_entries)
     IN  /\ writer' = w.writer
         /\ relocs' = w.relocs
         /\ entry_pos' = w.entry_pos
         /\ pc' = IF w.ok THEN "enc_done" ELSE "panic"
         /\ returned' = IF w.ok THEN [kind |-> "Ok", bytes |-> w.writer, relocs |-> w.relocs]
                        ELSE NoReturn
  /\ UNCHANGED <<isa, funcs, layouts, REG_X86_MAP, fi, ci, cfa_def_reg, cfa_def_offset,
                 instructions, fde_entries>>
  /\ UNCHANGED <<racers, cmVars>>
  /\ UNCHANGED glVars
  /\ UNCHANGED <<runVars, sinkVars, hmVars>>

NextEnc ==
  \/ EncStart
  \/ FuncBegin
  \/ TranslateNext
  \/ FuncEnd
  \/ WriteTable

\* a direct call of get_debug_frame_bytes
SpecEnc == InitEnc /\ [][NextEnc]_vars

\* ------------------------------------------------------ cranelift functions
\* Option values
None == [some |-> FALSE]
Some(v) == [some |-> TRUE, val |-> v]

\* ir::FrameLayoutChange, the directives an instruction carries
ChangeCfa(reg, offset) == [kind |-> "CallFrameAddressAt", reg |-> reg, offset |-> offset]
ChangeRegAt(reg, cfa_offset) == [kind |-> "RegAt", reg |-> reg, cfa_offset |-> cfa_offset]

\* an instruction: its encoded size, its source location and
\* inst_frame_layout_changes (None, or Some of a list of directives)
Inst(size, srcloc, changes) == [size |-> size, srcloc |-> srcloc, changes |-> changes]

\* an extended basic block: func.offsets[ebb] and its instructions
Ebb(offset, insts) == [offset |-> offset, insts |-> insts]

\* ebbs.sort_by_key(|ebb| func.offsets[*ebb]), a stable sort
RECURSIVE InsertEbb(_, _)
InsertEbb(sorted, e) ==
  IF sorted = <<>> THEN <<e>>
  ELSE IF e.offset < Head(sorted).offset THEN <<e>> \o sorted
  ELSE <<Head(sorted)>> \o InsertEbb(Tail(sorted), e)

RECURSIVE SortEbbs(_)
SortEbbs(ebbs) ==
  IF ebbs = <<>> THEN <<>>
  ELSE InsertEbb(SortEbbs(SubSeq(ebbs, 1, Len(ebbs) - 1)), ebbs[Len(ebbs)])

\* func.inst_offsets(ebb, &encinfo): (offset, inst, size) for each instruction
RECURSIVE InstOffsets(_, _)
InstOffsets(offset, insts) ==
  IF insts = <<>> THEN <<>>
  ELSE <<[offset |-> offset, inst |-> Head(insts), size |-> Head(insts).size]>>
       \o InstOffsets(offset + Head(insts).size, Tail(insts))

\* the sequence the two nested loops visit
RECURSIVE VisitOrder(_)
VisitOrder(ebbs) ==
  IF ebbs = <<>> THEN <<>>
  ELSE InstOffsets(Head(ebbs).offset, Head(ebbs).insts) \o VisitOrder(Tail(ebbs))

\* get_address_transform
get_address_transform(ebbs) ==
  LET v == VisitOrder(SortEbbs(ebbs))
  IN  [k \in 1..Len(v) |->
         [srcloc |-> v[k].inst.srcloc, code_offset |-> v[k].offset, code_len |-> v[k].size]]

\* the match of lines 129-136
ToCommand(c) ==
  CASE c.kind = "CallFrameAddressAt" -> CallFrameAddressAt(c.reg, c.offset)
    [] c.kind = "RegAt" -> RegAt(c.reg, c.cfa_offset)

\* the distance from the start of the function, not from the last change
MoveFromStart(address_offset, last) == address_offset

\* address_offset - last_offset
MoveBy(address_offset, last) == address_offset - last

\* the body of the inner loop of get_frame_layout on one visited instruction
FrameLayoutStep(st, t) ==
  IF ~t.inst.changes.some THEN st
  ELSE LET address_offset == t.offset + t.size
           cmds == t.inst.changes.val
       IN  IF ~(st.last_offset < address_offset)
           THEN [st EXCEPT !.ok = FALSE]
           ELSE [ok |-> TRUE,
                 last_offset |-> address_offset,
                 result |-> st.result
                   \o <<MoveLocationBy(U64Of(MoveBy(address_offset, st.last_offset)))>>
                   \o [k \in 1..Len(cmds) |-> ToCommand(cmds[k])]]

RECURSIVE FrameLayoutFold(_, _)
FrameLayoutFold(st, ts) ==
  IF ts = <<>> \/ ~st.ok THEN st
  ELSE FrameLayoutFold(FrameLayoutStep(st, Head(ts)), Tail(ts))

\* get_frame_layout: ok is FALSE when the assertion of line 126 fails
get_frame_layout(ebbs) ==
  FrameLayoutFold([ok |-> TRUE, last_offset |-> 0, result |-> <<>>],
                  VisitOrder(SortEbbs(ebbs)))

\* ---------------------------------------------------------- get_frame_layout
\* the instructions of the generated functions: with one directive, with two,
\* with none, and a zero-sized one with a directive
InstSet ==
  {Inst(2, 0, None),
   Inst(2, 0, Some(<<ChangeCfa(4, 16)>>)),
   Inst(2, 0, Some(<<ChangeCfa(5, 16), ChangeRegAt(5, -16)>>)),
   Inst(0, 0, Some(<<ChangeRegAt(3, -24)>>))}

\* the encoded size of a block
RECURSIVE EbbSize(_)
EbbSize(insts) == IF insts = <<>> THEN 0 ELSE Head(insts).size + EbbSize(Tail(insts))

\* the sum of the first e entries of a sequence of lengths
RECURSIVE LenSum(_, _)
LenSum(lens, e) == IF e = 0 THEN 0 ELSE lens[e] + LenSum(lens, e - 1)

\* a list of instructions cut into blocks of the given lengths
BlocksOf(insts, lens) ==
  [e \in 1..Len(lens) |-> SubSeq(insts, LenSum(lens, e - 1) + 1, LenSum(lens, e))]

\* func.offsets when the blocks are emitted back to back in the order emit
OffsetOf(blocks, emit, e) ==
  LET before == {d \in 1..Len(blocks) : emit[d] < emit[e]}
      RECURSIVE Sum(_)
      Sum(S) == IF S = {} THEN 0
                ELSE LET d == CHOOSE x \in S : TRUE IN EbbSize(blocks[d]) + Sum(S \ {d})
  IN  Sum(before)

\* the functions get_frame_layout is run on: non-empty blocks in layout
\* order, emitted in some order
InitLayout ==
  /\ pc = "gl_start"
  /\ \E m \in 1..MaxEbbs :
       \E lens \in [1..m -> 1..MaxInsts] :
         /\ LenSum(lens, m) <= MaxInsts
         /\ \E insts \in [1..LenSum(lens, m) -> InstSet] :
              \E emit \in Permutations(1..m) :
                LET blocks == BlocksOf(insts, lens)
                IN  gl_func = [e \in 1..m |-> Ebb(OffsetOf(blocks, emit, e), blocks[e])]
  /\ gl_todo = <<>> /\ last_offset = 0 /\ result = <<>>
  /\ run = 1 /\ first = NoReturn
  /\ sink_calls = <<>> /\ func_relocs = <<>> /\ debug_assertions = TRUE
  /\ hm_log = <<>> /\ output_file = "absent" /\ hm_ret = NoReturn
  /\ isa = IsaX86_64
  /\ bodies = <<>> /\ generate_debug_info = TRUE
  /\ task = <<>> /\ slots = <<>> /\ completed = 0
  /\ saved_error = NoError /\ cm_ret = NoReturn
  /\ racers = {}
  /\ funcs = <<>> /\ layouts = <<>>
  /\ REG_X86_MAP = CacheNone
  /\ fi = 1 /\ ci = 1
  /\ cfa_def_reg = X86_64_RSP /\ cfa_def_offset = U64Of(8)
  /\ instructions = <<>> /\ fde_entries = <<>>
  /\ writer = <<>> /\ relocs = <<>> /\ entry_pos = <<>>
  /\ returned = NoReturn

\* lines 114-120: the blocks are sorted and the accumulators created
GlSort ==
  /\ pc = "gl_start"
  /\ gl_todo' = VisitOrder(SortEbbs(gl_func))
  /\ last_offset' = 0
  /\ result' = <<>>
  /\ pc' = "gl_loop"
  /\ UNCHANGED <<gl_func, racers, cmVars>>
  /\ UNCHANGED <<runVars, sinkVars, hmVars>>
  /\ UNCHANGED <<isa, funcs, layouts, REG_X86_MAP, fi, ci, cfa_def_reg, cfa_def_offset,
                 instructions, fde_entries, writer, relocs, entry_pos, returned>>

\* lines 122-140: one turn of the inner loop
GlInst ==
  /\ pc = "gl_loop" /\ gl_todo # <<>>
  /\ LET st == FrameLayoutStep([ok |-> TRUE, last_offset |-> last_offset,
                                result |-> result], Head(gl_todo))
     IN  /\ last_offset' = st.last_offset
         /\ result' = st.result
         /\ pc' = IF st.ok THEN "gl_loop" ELSE "panic"
  /\ gl_todo' = Tail(gl_todo)
  /\ UNCHANGED <<gl_func, racers, cmVars>>
  /\ UNCHANGED <<runVars, sinkVars, hmVars>>
  /\ UNCHANGED <<isa, funcs, layouts, REG_X86_MAP, fi, ci, cfa_def_reg, cfa_def_offset,
                 instructions, fde_entries, writer, relocs, entry_pos, returned>>

\* line 144: the loops are over
GlReturn ==
  /\ pc = "gl_loop" /\ gl_todo = <<>>
  /\ pc' = "gl_done"
  /\ UNCHANGED <<glVars, racers, cmVars>>
  /\ UNCHANGED <<runVars, sinkVars, hmVars>>
  /\ UNCHANGED <<isa, funcs, layouts, REG_X86_MAP, fi, ci, cfa_def_reg, cfa_def_offset,
                 instructions, fde_entries, writer, relocs, entry_pos, returned>>

NextLayout == GlSort \/ GlInst \/ GlReturn

SpecLayout == InitLayout /\ [][NextLayout]_vars

\* ------------------------------------------------------------------ RelocSink
\* ir::ExternalName
UserName(namespace, index) == [kind |-> "User", namespace |-> namespace, index |-> index]
LibCallName(libcall) == [kind |-> "LibCall", libcall |-> libcall]
TestCaseName == [kind |-> "TestCase"]

\* the name func_environ gives a function, and the names it gives the four
\* memory built-ins
get_func_name(func_index) == UserName(0, func_index)
get_memory32_grow_name == UserName(1, 0)
get_imported_memory32_grow_name == UserName(1, 1)
get_memory32_size_name == UserName(1, 2)
get_imported_memory32_size_name == UserName(1, 3)

\* the calls binemit makes on a RelocSink
RelocExternal(offset, reloc, name, addend) ==
  [call |-> "reloc_external", offset |-> offset, reloc |-> reloc, name |-> name,
   addend |-> addend]
RelocEbb(offset, reloc, ebb_offset) ==
  [call |-> "reloc_ebb", offset |-> offset, reloc |-> reloc, ebb_offset |-> ebb_offset]
RelocJt(offset, reloc, jt) ==
  [call |-> "reloc_jt", offset |-> offset, reloc |-> reloc, jt |-> jt]

\* the if/else-if chain of lines 47-64: the target of a name, none where the
\* chain panics; checked is whether debug_assert! is compiled in
reloc_target_of(name, checked) ==
  CASE name = get_memory32_grow_name -> Some([kind |-> "Memory32Grow"])
    [] name = get_imported_memory32_grow_name -> Some([kind |-> "ImportedMemory32Grow"])
    [] name = get_memory32_size_name -> Some([kind |-> "Memory32Size"])
    [] name = get_imported_memory32_size_name -> Some([kind |-> "ImportedMemory32Size"])
    [] OTHER ->
         IF name.kind = "User"
         THEN IF checked /\ name.namespace # 0 THEN None
              ELSE Some([kind |-> "UserFunc", index |-> name.index])
         ELSE IF name.kind = "LibCall"
         THEN Some([kind |-> "LibCall", libcall |-> name.libcall])
         ELSE None

\* RelocSink::reloc_external: ok is FALSE when it panics
reloc_external(list, c, checked) ==
  LET reloc_target == reloc_target_of(c.name, checked)
  IN  IF ~reloc_target.some THEN [ok |-> FALSE, func_relocs |-> list]
      ELSE [ok |-> TRUE,
            func_relocs |-> Append(list, [reloc |-> c.reloc,
                                          reloc_target |-> reloc_target.val,
                                          offset |-> c.offset,
                                          addend |-> c.addend])]

\* RelocSink::reloc_ebb
reloc_ebb(list, c) == [ok |-> FALSE, func_relocs |-> list]

\* a jump-table relocation dropped without a word
reloc_jt_dropped(list, c) == [ok |-> TRUE, func_relocs |-> list]

\* RelocSink::reloc_jt
reloc_jt(list, c) == [ok |-> FALSE, func_relocs |-> list]

\* one call on the sink
SinkCallOn(list, c, checked) ==
  CASE c.call = "reloc_external" -> reloc_external(list, c, checked)
    [] c.call = "reloc_ebb" -> reloc_ebb(list, c)
    [] c.call = "reloc_jt" -> reloc_jt(list, c)

\* the calls of one compile_and_emit on a sink, up to the first that panics
RECURSIVE RunSink(_, _, _)
RunSink(list, calls, checked) ==
  IF calls = <<>> THEN [ok |-> TRUE, func_relocs |-> list]
  ELSE LET r == SinkCallOn(list, Head(calls), checked)
       IN  IF ~r.ok THEN r ELSE RunSink(r.func_relocs, Tail(calls), checked)

\* the calls the sink is run on
SinkCallSet ==
  {RelocExternal(2, "X86CallPCRel4", n, -4) :
     n \in {get_memory32_grow_name, get_imported_memory32_grow_name,
            get_memory32_size_name, get_imported_memory32_size_name,
            get_func_name(0), get_func_name(3), UserName(1, 4), UserName(2, 0),
            LibCallName("Probestack"), TestCaseName}}
  \cup {RelocExternal(9, "Abs8", n, 16) : n \in {get_func_name(3), TestCaseName}}
  \cup {RelocEbb(4, "X86PCRel4", 12), RelocJt(5, "X86PCRelRodata4", 0)}

InitSink ==
  /\ pc = "sink"
  /\ \E n \in 0..MaxRelocs : sink_calls \in [1..n -> SinkCallSet]
  /\ func_relocs = <<>>
  /\ debug_assertions \in BOOLEAN
  /\ hm_log = <<>> /\ output_file = "absent" /\ hm_ret = NoReturn
  /\ isa = IsaX86_64
  /\ funcs = <<>> /\ layouts = <<>>
  /\ REG_X86_MAP = CacheNone
  /\ fi = 1 /\ ci = 1
  /\ cfa_def_reg = X86_64_RSP /\ cfa_def_offset = U64Of(8)
  /\ instructions = <<>> /\ fde_entries = <<>>
  /\ writer = <<>> /\ relocs = <<>> /\ entry_pos = <<>>
  /\ returned = NoReturn
  /\ racers = {}
  /\ bodies = <<>> /\ generate_debug_info = TRUE
  /\ task = <<>> /\ slots = <<>> /\ completed = 0
  /\ saved_error = NoError /\ cm_ret = NoReturn
  /\ gl_func = <<>> /\ gl_todo = <<>> /\ last_offset = 0 /\ result = <<>>
  /\ run = 1 /\ first = NoReturn

\* compile_and_emit makes its next call on the sink
SinkCall ==
  /\ pc = "sink" /\ sink_calls # <<>>
  /\ LET r == SinkCallOn(func_relocs, Head(sink_calls), debug_assertions)
     IN  /\ func_relocs' = r.func_relocs
         /\ pc' = IF r.ok THEN "sink" ELSE "panic"
  /\ sink_calls' = Tail(sink_calls)
  /\ UNCHANGED <<debug_assertions, hmVars>>
  /\ UNCHANGED <<isa, funcs, layouts, REG_X86_MAP, fi, ci, cfa_def_reg, cfa_def_offset,
                 instructions, fde_entries, writer, relocs, entry_pos, returned>>
  /\ UNCHANGED <<racers, cmVars, glVars, runVars>>

\* compile_and_emit returns; line 212 takes reloc_sink.func_relocs
SinkDone ==
  /\ pc = "sink" /\ sink_calls = <<>>
  /\ pc' = "sink_done"
  /\ UNCHANGED <<isa, funcs, layouts, REG_X86_MAP, fi, ci, cfa_def_reg, cfa_def_offset,
                 instructions, fde_entries, writer, relocs, entry_pos, returned>>
  /\ UNCHANGED <<racers, cmVars, glVars, runVars, sinkVars, hmVars>>

NextSink == SinkCall \/ SinkDone

SpecSink == InitSink /\ [][NextSink]_vars

\* ------------------------------------------------------------ compile_module
\* A function body input, as the closure of lines 164-215 sees it: the outcome
\* of FuncTranslator::translate, the outcome of compile_and_emit, the emitted
\* code, the calls compile_and_emit makes on the relocation sink, and the
\* compiled function.
Body(translate, codegen, call_conv, code, calls, ebbs) ==
  [translate |-> translate, codegen |-> codegen, call_conv |-> call_conv,
   code |-> code, reloc_calls |-> calls, ebbs |-> ebbs]

\* push %rbp; mov %rsp,%rbp; pop %rbp; ret
BodyFramed ==
  Body("ok", "ok", "SystemV", <<85, 72, 137, 229, 93, 195>>, <<>>,
       <<Ebb(0, <<Inst(1, 1, Some(<<ChangeCfa(4, 16), ChangeRegAt(5, -16)>>)),
                  Inst(3, 2, Some(<<ChangeCfa(5, 16)>>)),
                  Inst(1, 3, Some(<<ChangeCfa(4, 8)>>)),
                  Inst(1, 4, None)>>)>>)

\* two blocks the layout lists against their offsets, and a call
BodySplit ==
  Body("ok", "ok", "SystemV", <<80, 232, 0, 0, 0, 0, 88, 195>>,
       <<RelocExternal(2, "X86CallPCRel4", get_func_name(0), -4)>>,
       <<Ebb(6, <<Inst(1, 3, Some(<<ChangeCfa(4, 8)>>)), Inst(1, 4, None)>>),
         Ebb(0, <<Inst(1, 1, Some(<<ChangeCfa(4, 16)>>)), Inst(5, 2, None)>>)>>)

\* two frame changes 65 bytes apart
BodyLong ==
  Body("ok", "ok", "SystemV", [k \in 1..67 |-> 144], <<>>,
       <<Ebb(0, <<Inst(1, 1, Some(<<ChangeCfa(4, 16)>>))>>
                \o [k \in 1..8 |-> Inst(8, 2, None)]
                \o <<Inst(1, 3, Some(<<ChangeCfa(4, 8)>>)), Inst(1, 4, None)>>)>>)

\* a Windows signature
BodyWin ==
  Body("ok", "ok", "WindowsFastcall", <<195>>, <<>>, <<Ebb(0, <<Inst(1, 1, None)>>)>>)

\* a body the wasm translator rejects
BodyBadWasm == Body("InvalidWebAssembly", "ok", "SystemV", <<>>, <<>>, <<>>)

\* a body the code generator rejects
BodyBadCodegen == Body("ok", "CodeTooLarge", "SystemV", <<>>, <<>>, <<>>)

\* a frame change on a zero-sized instruction at offset 0
BodyZeroSize ==
  Body("ok", "ok", "SystemV", <<195>>, <<>>,
       <<Ebb(0, <<Inst(0, 1, Some(<<ChangeCfa(4, 8)>>)), Inst(1, 2, None)>>)>>)

\* a call of memory.grow, then a jump table
BodyJt ==
  Body("ok", "ok", "SystemV", <<232, 0, 0, 0, 0, 255, 224>>,
       <<RelocExternal(1, "X86CallPCRel4", get_memory32_grow_name, -4),
         RelocJt(5, "X86PCRelRodata4", 0)>>,
       <<Ebb(0, <<Inst(5, 1, None), Inst(2, 2, None)>>)>>)

BodySet == {BodyFramed, BodySplit, BodyLong, BodyWin, BodyBadWasm, BodyBadCodegen,
            BodyZeroSize, BodyJt}

\* both stages reported as CompileError::Wasm
ErrorAsWasm(stage, e) == [stage |-> "Wasm", cause |-> e]

\* map_err(CompileError::Wasm) and map_err(CompileError::Codegen)
CompileError(stage, e) == [stage |-> stage, cause |-> e]

\* a task that translates the registers of its frame changes
TaskLooksUpRegisters(body) ==
  UNION {{body.ebbs[e].insts[k].changes.val[1].reg :
            k \in {j \in 1..Len(body.ebbs[e].insts) : body.ebbs[e].insts[j].changes.some}} :
         e \in 1..Len(body.ebbs)}

\* the registers the closure of lines 164-215 hands to map_reg: it calls
\* translate, compile_and_emit, get_address_transform and get_frame_layout only
TaskCacheLookups(body) == {}

\* the closure of lines 164-215 on one function
CompileOne(body, debug) ==
  IF body.translate # "ok"
  THEN [kind |-> "Err", err |-> CompileError("Wasm", body.translate)]
  ELSE IF body.codegen # "ok"
  THEN [kind |-> "Err", err |-> CompileError("Codegen", body.codegen)]
  ELSE LET sink == RunSink(<<>>, body.reloc_calls, debug_assertions)
           fl == get_frame_layout(body.ebbs)
       IN  IF ~sink.ok THEN [kind |-> "Panic"]
           ELSE IF debug /\ ~fl.ok THEN [kind |-> "Panic"]
           ELSE [kind |-> "Ok",
                 function |-> body.code,
                 relocs |-> sink.func_relocs,
                 address_transform |->
                   IF debug
                   THEN Some([locations |-> get_address_transform(body.ebbs),
                              body_offset |-> 0, body_len |-> Len(body.code)])
                   ELSE None,
                 frame_layout |->
                   IF debug
                   THEN Some([call_conv |-> body.call_conv, commands |-> fl.result])
                   ELSE None]

\* the slot of the collected Vec by the order in which tasks finish
CollectSlotByCompletion(i, done) == done + 1

\* collect() on an indexed parallel iterator: item i lands in slot i, whatever
\* the number of items delivered before it (kept in the slot as nth)
CollectSlot(i, done) == i

\* nothing is pushed, Some or None
NoSomes(s) == <<>>

\* the items of a sequence of options that are Some, in order
RECURSIVE Somes(_)
Somes(s) ==
  IF s = <<>> THEN <<>>
  ELSE IF Head(s).some THEN <<Head(s).val>> \o Somes(Tail(s)) ELSE Somes(Tail(s))

\* handle_module has read the file, found the isa and translated the module
\* (wasm2obj.rs lines 118-160) and is at its call of compile_module
Init ==
  /\ pc = "cm_start"
  /\ isa \in IsaSet
  /\ \E n \in 0..MaxFuncs : bodies \in [1..n -> BodySet]
  /\ generate_debug_info \in BOOLEAN
  /\ task = <<>> /\ slots = <<>> /\ completed = 0
  /\ saved_error = NoError /\ cm_ret = NoReturn
  /\ racers = {}
  /\ funcs = <<>> /\ layouts = <<>>
  /\ REG_X86_MAP = CacheNone
  /\ fi = 1 /\ ci = 1
  /\ cfa_def_reg = X86_64_RSP /\ cfa_def_offset = U64Of(8)
  /\ instructions = <<>> /\ fde_entries = <<>>
  /\ writer = <<>> /\ relocs = <<>> /\ entry_pos = <<>>
  /\ returned = NoReturn
  /\ gl_func = <<>> /\ gl_todo = <<>> /\ last_offset = 0 /\ result = <<>>
  /\ run = 1 /\ first = NoReturn
  /\ sink_calls = <<>> /\ func_relocs = <<>> /\ debug_assertions = TRUE
  /\ hm_log = <<"read_wasm_file", "isa_lookup", "translate", "compile_module">>
  /\ output_file = "absent" /\ hm_ret = NoReturn

\* lines 155-163: the collections are created and the tasks forked
CmStart ==
  /\ pc = "cm_start"
  /\ pc' = "cm_par"
  /\ task' = [i \in 1..Len(bodies) |-> "pending"]
  /\ slots' = [i \in 1..Len(bodies) |-> None]
  /\ racers' = {}
  /\ UNCHANGED <<bodies, generate_debug_info, completed, saved_error, cm_ret>>
  /\ UNCHANGED <<isa, funcs, layouts, REG_X86_MAP, fi, ci, cfa_def_reg, cfa_def_offset,
                 instructions, fde_entries, writer, relocs, entry_pos, returned>>
  /\ UNCHANGED glVars
  /\ UNCHANGED <<runVars, sinkVars, hmVars>>

\* lines 164-215 run for function i on some worker thread
TaskRun(i) ==
  /\ pc = "cm_par" /\ task[i] = "pending"
  /\ LET r == CompileOne(bodies[i], generate_debug_info)
     IN  /\ task' = [task EXCEPT ![i] = CASE r.kind = "Ok" -> "done"
                                          [] r.kind = "Err" -> "failed"
                                          [] OTHER -> "panicked"]
         /\ slots' = IF r.kind = "Ok"
                     THEN [slots EXCEPT ![CollectSlot(i, completed)] =
                             [some |-> TRUE, val |-> r, nth |-> completed + 1]]
                     ELSE slots
         /\ completed' = IF r.kind = "Ok" THEN completed + 1 ELSE completed
         /\ saved_error' = IF r.kind = "Err" /\ ~saved_error.some THEN Some(r.err)
                           ELSE saved_error
  /\ racers' = IF TaskCacheLookups(bodies[i]) = {} THEN racers ELSE racers \cup {i}
  /\ UNCHANGED <<pc, bodies, generate_debug_info, cm_ret>>
  /\ UNCHANGED <<isa, funcs, layouts, REG_X86_MAP, fi, ci, cfa_def_reg, cfa_def_offset,
                 instructions, fde_entries, writer, relocs, entry_pos, returned>>
  /\ UNCHANGED glVars
  /\ UNCHANGED <<runVars, sinkVars, hmVars>>

\* line 216: once a task has failed the collect may drop the items not started
TaskSkip(i) ==
  /\ pc = "cm_par" /\ task[i] = "pending"
  /\ \E j \in 1..Len(task) : task[j] \in {"failed", "panicked"}
  /\ task' = [task EXCEPT ![i] = "skipped"]
  /\ UNCHANGED <<pc, bodies, generate_debug_info, slots, completed, saved_error, cm_ret,
                 racers>>
  /\ UNCHANGED <<isa, funcs, layouts, REG_X86_MAP, fi, ci, cfa_def_reg, cfa_def_offset,
                 instructions, fde_entries, writer, relocs, entry_pos, returned>>
  /\ UNCHANGED glVars
  /\ UNCHANGED <<runVars, sinkVars, hmVars>>

\* the collections of lines 218-226 from the collected items
Collected(items) ==
  [kind |-> "Ok",
   functions |-> [k \in 1..Len(items) |-> items[k].function],
   relocations |-> [k \in 1..Len(items) |-> items[k].relocs],
   address_transforms |-> Somes([k \in 1..Len(items) |-> items[k].address_transform]),
   frame_layouts |-> Somes([k \in 1..Len(items) |-> items[k].frame_layout])]

\* lines 216-235: the tasks are joined and the outcome returned
CmJoin ==
  /\ pc = "cm_par"
  /\ \A i \in 1..Len(task) : task[i] # "pending"
  /\ racers' = {}
  /\ IF \E i \in 1..Len(task) : task[i] = "panicked"
     THEN pc' = "panic" /\ cm_ret' = cm_ret
     ELSE /\ pc' = "cm_done"
          /\ cm_ret' = IF saved_error.some
                       THEN [kind |-> "Err", err |-> saved_error.val]
                       ELSE Collected([k \in 1..Len(slots) |-> slots[k].val])
  /\ UNCHANGED <<bodies, generate_debug_info, task, slots, completed, saved_error>>
  /\ UNCHANGED <<isa, funcs, layouts, REG_X86_MAP, fi, ci, cfa_def_reg, cfa_def_offset,
                 instructions, fde_entries, writer, relocs, entry_pos, returned>>
  /\ UNCHANGED glVars
  /\ UNCHANGED <<runVars, sinkVars, hmVars>>

\* frame.rs lines 268-304 on the next command of the layout of function fi
TranslateGiven ==
  /\ pc = "cmd_loop" /\ ci <= Len(layouts[fi].commands)
  /\ Translate(layouts[fi].commands[ci])
  /\ UNCHANGED layouts

\* ------------------------------------------------ handle_module, stage by stage
\* the encoder's state, which the stages of handle_module outside
\* emit_debugsections leave alone
hmEncVars == <<isa, funcs, layouts, REG_X86_MAP, fi, ci, cfa_def_reg, cfa_def_offset,
               instructions, fde_entries, writer, relocs, entry_pos, returned>>

\* `return Err(..)` and the `?` of a failed stage
HmErr(stage) == [kind |-> "Err", stage |-> stage]

\* the outcomes of a call that returns a Result, and of one that may also panic
ResultSet == {"Ok", "Err"}
ResultOrPanicSet == {"Ok", "Err", "Panic"}

\* the debug sections are emitted whatever the flag says
StageAlwaysDebug(debug) == "hm_debug"

\* line 179: `if generate_debug_info`
StageAfterModule(debug) == IF debug THEN "hm_debug" ELSE "hm_create"

\* handle_module(path, target, output, generate_debug_info) is about to run
\* on a file holding the function bodies, for a target whose isa is isa
InitHandle ==
  /\ pc = "hm_start"
  /\ isa \in IsaSet
  /\ \E n \in 0..MaxFuncs : bodies \in [1..n -> BodySet]
  /\ generate_debug_info \in BOOLEAN
  /\ task = <<>> /\ slots = <<>> /\ completed = 0
  /\ saved_error = NoError /\ cm_ret = NoReturn
  /\ racers = {}
  /\ funcs = <<>> /\ layouts = <<>>
  /\ REG_X86_MAP = CacheNone
  /\ fi = 1 /\ ci = 1
  /\ cfa_def_reg = X86_64_RSP /\ cfa_def_offset = U64Of(8)
  /\ instructions = <<>> /\ fde_entries = <<>>
  /\ writer = <<>> /\ relocs = <<>> /\ entry_pos = <<>>
  /\ returned = NoReturn
  /\ gl_func = <<>> /\ gl_todo = <<>> /\ last_offset = 0 /\ result = <<>>
  /\ run = 1 /\ first = NoReturn
  /\ sink_calls = <<>> /\ func_relocs = <<>> /\ debug_assertions = TRUE
  /\ hm_log = <<>> /\ output_file = "absent" /\ hm_ret = NoReturn

\* a stage that only moves handle_module on, or ends it
HmStep(stage, outcome, next) ==
  /\ hm_log' = Append(hm_log, stage)
  /\ pc' = CASE outcome = "Ok" -> next [] outcome = "Err" -> "hm_done" [] OTHER -> "panic"
  /\ hm_ret' = IF outcome = "Err" THEN HmErr(stage) ELSE hm_ret
  /\ UNCHANGED <<hmEncVars, racers, cmVars, glVars, runVars, sinkVars>>

\* lines 118-123: read_wasm_file
HmRead ==
  /\ pc = "hm_start"
  /\ \E outcome \in ResultSet : HmStep("read_wasm_file", outcome, "hm_isa")
  /\ UNCHANGED output_file

\* lines 125-142: the isa of the target, or of the host, and the Artifact
HmIsa ==
  /\ pc = "hm_isa"
  /\ \E outcome \in ResultOrPanicSet : HmStep("isa_lookup", outcome, "hm_translate")
  /\ UNCHANGED output_file

\* lines 147-160: ModuleEnvironment::translate
HmTranslate ==
  /\ pc = "hm_translate"
  /\ \E outcome \in ResultSet : HmStep("translate", outcome, "hm_compile")
  /\ UNCHANGED output_file

\* lines 162-167: compile_module is called
HmCompile ==
  /\ pc = "hm_compile"
  /\ hm_log' = Append(hm_log, "compile_module")
  /\ pc' = "cm_start"
  /\ UNCHANGED <<hmEncVars, racers, cmVars, glVars, runVars, sinkVars, output_file, hm_ret>>

\* line 168: compile_module returned, `.map_err(|e| e.to_string())?`
HmCompiled ==
  /\ pc = "cm_done"
  /\ pc' = IF cm_ret.kind = "Err" THEN "hm_done" ELSE "hm_emit_module"
  /\ hm_ret' = IF cm_ret.kind = "Err" THEN HmErr("compile_module") ELSE hm_ret
  /\ UNCHANGED <<hmEncVars, racers, cmVars, glVars, runVars, sinkVars, hm_log, output_file>>

\* lines 170-177: emit_module
HmEmitModule ==
  /\ pc = "hm_emit_module"
  /\ \E outcome \in ResultSet :
       HmStep("emit_module", outcome, StageAfterModule(generate_debug_info))
  /\ UNCHANGED output_file

\* lines 179-187: read_debuginfo, and emit_debugsections called with the
\* frame layouts; it hands them and the extent of each function body to
\* get_debug_frame_bytes
HmDebug ==
  /\ pc = "hm_debug"
  /\ hm_log' = Append(hm_log, "emit_debugsections")
  /\ pc' = "enc_start"
  /\ funcs' = [k \in 1..Len(cm_ret.functions) |-> Len(cm_ret.functions[k])]
  /\ layouts' = cm_ret.frame_layouts
  /\ UNCHANGED <<isa, REG_X86_MAP, fi, ci, cfa_def_reg, cfa_def_offset,
                 instructions, fde_entries, writer, relocs, entry_pos, returned>>
  /\ UNCHANGED <<racers, cmVars, glVars, runVars, sinkVars, output_file, hm_ret>>

\* line 188: emit_debugsections returned, `.map_err(|e| e.to_string())?`
HmDebugged ==
  /\ pc = "enc_done"
  /\ \E outcome \in ResultSet :
       /\ pc' = IF outcome = "Ok" THEN "hm_create" ELSE "hm_done"
       /\ hm_ret' = IF outcome = "Err" THEN HmErr("emit_debugsections") ELSE hm_ret
  /\ UNCHANGED <<hmEncVars, racers, cmVars, glVars, runVars, sinkVars, hm_log, output_file>>

\* lines 192-193: File::create
HmCreate ==
  /\ pc = "hm_create"
  /\ \E outcome \in ResultSet :
       /\ HmStep("File::create", outcome, "hm_write")
       /\ output_file' = IF outcome = "Ok" THEN "created" ELSE output_file

\* lines 194-196: obj.write, and Ok(())
HmWrite ==
  /\ pc = "hm_write"
  /\ \E outcome \in ResultSet :
       /\ hm_log' = Append(hm_log, "write")
       /\ pc' = "hm_done"
       /\ hm_ret' = IF outcome = "Ok" THEN [kind |-> "Ok"] ELSE HmErr("write")
       /\ output_file' = IF outcome = "Ok" THEN "written" ELSE output_file
  /\ UNCHANGED <<hmEncVars, racers, cmVars, glVars, runVars, sinkVars>>

NextHandle ==
  \/ HmRead
  \/ HmIsa
  \/ HmTranslate
  \/ HmCompile
  \/ CmStart
  \/ \E i \in 1..Len(bodies) : TaskRun(i)
  \/ \E i \in 1..Len(bodies) : TaskSkip(i)
  \/ CmJoin
  \/ HmCompiled
  \/ HmEmitModule
  \/ HmDebug
  \/ EncStart
  \/ FuncBegin
  \/ TranslateGiven
  \/ FuncEnd
  \/ WriteTable
  \/ HmDebugged
  \/ HmCreate
  \/ HmWrite

SpecHandle == InitHandle /\ [][NextHandle]_vars

Next ==
  \/ CmStart
  \/ \E i \in 1..Len(bodies) : TaskRun(i)
  \/ \E i \in 1..Len(bodies) : TaskSkip(i)
  \/ CmJoin
  \/ HmCompiled
  \/ HmEmitModule
  \/ HmDebug
  \/ EncStart
  \/ FuncBegin
  \/ TranslateGiven
  \/ FuncEnd
  \/ WriteTable
  \/ HmDebugged
  \/ HmCreate
  \/ HmWrite

Spec == Init /\ [][Next]_vars

\* ------------------------------------------------------------------ claims
\* the command the loop iteration of this step read
CmdRead == layouts'[fi].commands[ci]

\* this step is an iteration of the command loop that pushed or skipped
StepTranslated == pc = "cmd_loop" /\ pc' = "cmd_loop" /\ ci' = ci + 1

\* this step is an iteration of the command loop that panicked
StepPanicked == pc = "cmd_loop" /\ pc' = "panic"

\* the instructions this step pushed
Pushed == SubSeq(instructions', Len(instructions) + 1, Len(instructions'))

\* C1: every function starts from the tracked state (RSP, 8), and every
\* CallFrameAddressAt{reg, offset} pushes DefCfa(mapped, offset) when register
\* and offset both differ from the tracked state, DefCfaOffset(offset) when
\* only the offset differs, DefCfaRegister(mapped) when only the register
\* differs and nothing when neither does; afterwards the tracked state is
\* (mapped, offset).
C1_CfaTracker ==
  [][/\ (pc = "func_loop" /\ pc' = "cmd_loop")
          => (cfa_def_reg' = X86_64_RSP /\ cfa_def_offset' = U64Of(8))
     /\ (StepTranslated /\ CmdRead.kind = "CallFrameAddressAt")
          => /\ SubSeq(instructions', 1, Len(instructions)) = instructions
             /\ Pushed =
                  (IF X86NameTable(display_regunit(CmdRead.reg)) # cfa_def_reg
                   THEN IF AsU64(CmdRead.offset) # cfa_def_offset
                        THEN <<DefCfa(X86NameTable(display_regunit(CmdRead.reg)),
                                      AsU64(CmdRead.offset))>>
                        ELSE <<DefCfaRegister(X86NameTable(display_regunit(CmdRead.reg)))>>
                   ELSE IF AsU64(CmdRead.offset) # cfa_def_offset
                        THEN <<DefCfaOffset(AsU64(CmdRead.offset))>>
                        ELSE <<>>)
             /\ cfa_def_reg' = X86NameTable(display_regunit(CmdRead.reg))
             /\ cfa_def_offset' = AsU64(CmdRead.offset)]_vars

\* C1 witness: after CallFrameAddressAt{rsp, 16} pushed DefCfaOffset(16), a
\* CallFrameAddressAt{rbp, 16} pushed DefCfaRegister(RBP) alone
C1_Witness ==
  /\ pc = "cmd_loop" /\ ci = 3
  /\ layouts[fi].commands = <<CallFrameAddressAt(4, 16), CallFrameAddressAt(5, 16)>>
  /\ instructions = <<DefCfaOffset(U64Of(16)), DefCfaRegister(X86_64_RBP)>>
  /\ cfa_def_reg = X86_64_RBP /\ cfa_def_offset = U64Of(16)

\* the u32 at byte offset pos of a buffer (the largest integer when it does
\* not fit)
U32At(bytes, pos) ==
  IF bytes[pos + 4] > 127 THEN 2147483647
  ELSE bytes[pos + 1] + 256 * bytes[pos + 2] + 65536 * bytes[pos + 3]
       + 16777216 * bytes[pos + 4]

\* the entries of entry_pos that were written to their end
EntriesWritten == IF pc = "panic" THEN Len(entry_pos) - 1 ELSE Len(entry_pos)

\* where entry k of the buffer ends
EntryEnd(k) == IF k < Len(entry_pos) THEN entry_pos[k + 1] ELSE Len(writer)

\* C5: for every entry written (the header entry and each function entry),
\* the 4-byte length prefix at its start equals the number of bytes of the
\* entry after the prefix, and the entry's length with prefix and padding
\* is a multiple of the address size.
C5_EntryLengths ==
  \A k \in 1..EntriesWritten :
    /\ U32At(writer, entry_pos[k]) = (EntryEnd(k) - entry_pos[k]) - 4
    /\ (EntryEnd(k) - entry_pos[k]) % isa.pointer_bytes = 0

\* C5 witness: a table was returned whose two function entries hold
\* instruction streams of 3 and 1 bytes, each padded to 32 bytes
C5_Witness ==
  /\ returned.kind = "Ok" /\ isa.pointer_bytes = 8
  /\ Len(fde_entries) = 2
  /\ fde_entries[1].instructions = <<DefCfa(X86_64_RBP, U64Of(16))>>
  /\ fde_entries[2].instructions = <<AdvanceLoc(U32Of(63))>>
  /\ entry_pos = <<0, 24, 56>> /\ Len(writer) = 88

\* x < 64 for a usize x
U64Below64(w) == w[1] < 64 /\ SubSeq(w, 2, 8) = <<0, 0, 0, 0, 0, 0, 0>>

\* C6: no buffer is returned for a layout that holds a MoveLocationBy whose
\* delta is 64 or more (so no advance-location byte stands for a truncated
\* delta).
C6_LargeDeltaFails ==
  returned.kind = "Ok" =>
    \A f \in 1..Len(layouts) : \A c \in 1..Len(layouts[f].commands) :
      layouts[f].commands[c].kind = "MoveLocationBy"
        => U64Below64(layouts[f].commands[c].delta)

\* the k with cfa_offset = -8 * k, for the offsets of the model
FactorRange == -4..4
IsMultipleOfDaf(cfa_offset) == \E k \in FactorRange : cfa_offset = (-8) * k
FactorOf(cfa_offset) == CHOOSE k \in FactorRange : cfa_offset = (-8) * k

\* C7: a RegAt{reg, cfa_offset} whose cfa_offset is a multiple of the data
\* alignment factor -8 pushes Offset(mapped register, cfa_offset / -8), or
\* panics because the register has no x86 name; one whose cfa_offset is not
\* a multiple panics at once, with nothing pushed, no byte written and no
\* buffer returned.
C7_RegAt ==
  [][((StepTranslated \/ StepPanicked) /\ ci <= Len(layouts'[fi].commands)
        /\ CmdRead.kind = "RegAt")
       => IF IsMultipleOfDaf(CmdRead.cfa_offset)
          THEN IF display_regunit(CmdRead.reg) \in X86Names
               THEN /\ StepTranslated
                    /\ instructions' = Append(instructions,
                         Offset(X86NameTable(display_regunit(CmdRead.reg)),
                                AsU64(FactorOf(CmdRead.cfa_offset))))
               ELSE StepPanicked
          ELSE /\ StepPanicked
               /\ instructions' = instructions
               /\ writer' = <<>> /\ returned' = NoReturn]_vars

\* C7 witness: RegAt{rbp, -16} pushed Offset(RBP, 2), then RegAt{rbp, -15}
\* panicked before anything was written
C7_Witness ==
  /\ pc = "panic"
  /\ Len(layouts) >= 1
  /\ layouts[fi].commands = <<RegAt(5, -16), RegAt(5, -15)>>
  /\ instructions = <<Offset(X86_64_RBP, U64Of(2))>>
  /\ writer = <<>> /\ returned = NoReturn

\* C8: every function entry written appended one offset to the relocation
\* list, the position of its initial-code-address field (entry start + 8);
\* in a returned buffer the 8 bytes there are zero and the next 8 bytes are
\* the function's code length; the returned list has one element per
\* function, in index order and strictly increasing.
C8_Relocs ==
  /\ entry_pos # <<>> =>
       /\ Len(relocs) = Len(entry_pos) - 1
       /\ \A i \in 1..Len(relocs) : relocs[i] = entry_pos[i + 1] + 8
  /\ returned.kind = "Ok" =>
       /\ Len(returned.relocs) = Len(funcs)
       /\ \A i \in 1..Len(funcs) :
            /\ returned.relocs[i] = entry_pos[i + 1] + 8
            /\ SubSeq(returned.bytes, returned.relocs[i] + 1, returned.relocs[i] + 8)
                 = <<0, 0, 0, 0, 0, 0, 0, 0>>
            /\ U32At(returned.bytes, returned.relocs[i] + 8) = funcs[i]
            /\ SubSeq(returned.bytes, returned.relocs[i] + 13, returned.relocs[i] + 16)
                 = <<0, 0, 0, 0>>
            /\ i > 1 => returned.relocs[i - 1] < returned.relocs[i]

\* C8 witness: two functions of 258 and 5 bytes, relocations at 32 and 64
C8_Witness ==
  /\ returned.kind = "Ok"
  /\ funcs = <<258, 5>>
  /\ returned.relocs = <<32, 64>>
  /\ fde_entries[1].instructions # <<>>

\* the entry starts found by following the length prefixes from pos
RECURSIVE Walk(_, _)
Walk(bytes, pos) ==
  IF pos + 4 > Len(bytes) THEN <<>>
  ELSE <<pos>> \o Walk(bytes, pos + 4 + U32At(bytes, pos))

\* C10: a returned table is one header entry at offset 0 followed by one
\* function entry per element of funcs, in index order and without gaps;
\* every function entry's CIE pointer is the start of the header entry and
\* every entry starts at a multiple of the address size.
C10_TableLayout ==
  returned.kind = "Ok" =>
    /\ Walk(returned.bytes, 0) = entry_pos
    /\ Len(entry_pos) = 1 + Len(funcs)
    /\ entry_pos[1] = 0
    /\ SubSeq(returned.bytes, 5, 8) = CIE_ID
    /\ \A k \in 2..Len(entry_pos) :
         /\ SubSeq(returned.bytes, entry_pos[k] + 5, entry_pos[k] + 8) = U32Of(entry_pos[1])
         /\ U32At(returned.bytes, entry_pos[k] + 16) = funcs[k - 1]
    /\ \A k \in 1..Len(entry_pos) : entry_pos[k] % isa.pointer_bytes = 0
    /\ LET last == entry_pos[Len(entry_pos)]
       IN  last + 4 + U32At(returned.bytes, last) = Len(returned.bytes)

\* C10 witness: a header entry and two function entries, the second longer
C10_Witness ==
  /\ returned.kind = "Ok"
  /\ Len(funcs) = 2
  /\ entry_pos = <<0, 24, 48>> /\ Len(returned.bytes) = 88

\* ------------------------------------------------- FDEEntry::write, by steps
U64Max == [k \in 1..8 |-> 255]

\* the instructions FDEEntry::write is run on: deltas and registers on both
\* sides of 0x40, operands of one, two and ten ULEB128 bytes
InstrSet ==
  {AdvanceLoc(U32Of(d)) : d \in {0, 63, 64}}
  \cup {DefCfa(X86_64_RSP, U64Of(o)) : o \in {8, 300}}
  \cup {DefCfaRegister(r) : r \in {X86_64_RBP, 128, 300}}
  \cup {DefCfaOffset(U64Of(o)) : o \in {0, 8, 128}}
  \cup {Offset(X86_64_RBP, U64Of(f)) : f \in {2, 128}}
  \cup {Offset(63, U64Max), Offset(64, U64Of(2))}

InitFde ==
  /\ pc = "fde_start"
  /\ isa \in {IsaX86_64, IsaX86_32}
  /\ funcs = <<FLen(1)>>
  /\ \E n \in 0..MaxInstrs : instructions \in [1..n -> InstrSet]
  /\ layouts = <<>>
  /\ REG_X86_MAP = CacheNone
  /\ fi = 1 /\ ci = 1
  /\ cfa_def_reg = X86_64_RSP /\ cfa_def_offset = U64Of(8)
  /\ fde_entries = <<>>
  /\ writer = <<>> /\ relocs = <<>> /\ entry_pos = <<>>
  /\ returned = NoReturn
  /\ racers = {}
  /\ bodies = <<>> /\ generate_debug_info = TRUE
  /\ task = <<>> /\ slots = <<>> /\ completed = 0
  /\ saved_error = NoError /\ cm_ret = NoReturn
  /\ gl_func = <<>> /\ gl_todo = <<>> /\ last_offset = 0 /\ result = <<>>
  /\ run = 1 /\ first = NoReturn
  /\ sink_calls = <<>> /\ func_relocs = <<>> /\ debug_assertions = TRUE
  /\ hm_log = <<>> /\ output_file = "absent" /\ hm_ret = NoReturn

\* lines 97-106: the fixed fields, the length still to be patched; the
\* assertion on address_size stands between the relocation and the two
\* 64-bit fields
FdeBegin ==
  /\ pc = "fde_start"
  /\ entry_pos' = <<Len(writer)>>
  /\ relocs' = Append(relocs, FdeRelocAt(writer \o U32Of(0) \o U32Of(0)))
  /\ writer' = IF isa.pointer_bytes = 8
               THEN writer \o U32Of(0) \o U32Of(0) \o U64Of(0) \o U64Of(funcs[fi])
               ELSE writer \o U32Of(0) \o U32Of(0)
  /\ pc' = IF isa.pointer_bytes = 8 THEN "fde_instrs" ELSE "panic"
  /\ UNCHANGED <<isa, funcs, layouts, REG_X86_MAP, fi, ci, cfa_def_reg, cfa_def_offset,
                 instructions, fde_entries, returned>>
  /\ UNCHANGED <<racers, cmVars, glVars, runVars, sinkVars, hmVars>>

\* lines 108-110: CallFrameInstruction::write on the next instruction
CfiWrite ==
  /\ pc = "fde_instrs" /\ ci <= Len(instructions)
  /\ IF CfiAccepted(instructions[ci])
     THEN writer' = writer \o CfiBytes(instructions[ci]) /\ ci' = ci + 1 /\ pc' = pc
     ELSE writer' = writer /\ ci' = ci /\ pc' = "panic"
  /\ UNCHANGED <<isa, funcs, layouts, REG_X86_MAP, fi, cfa_def_reg, cfa_def_offset,
                 instructions, fde_entries, relocs, entry_pos, returned>>
  /\ UNCHANGED <<racers, cmVars, glVars, runVars, sinkVars, hmVars>>

\* lines 112-118: the padding and the length
FdeFinish ==
  /\ pc = "fde_instrs" /\ ci = Len(instructions) + 1
  /\ LET pos == entry_pos[1]
         w3 == pad_with_nop(writer, Len(writer) - pos, isa.pointer_bytes)
     IN  writer' = write_u32_at(w3, pos, (Len(w3) - pos) - 4)
  /\ pc' = "fde_done"
  /\ UNCHANGED <<isa, funcs, layouts, REG_X86_MAP, fi, ci, cfa_def_reg, cfa_def_offset,
                 instructions, fde_entries, relocs, entry_pos, returned>>
  /\ UNCHANGED <<racers, cmVars, glVars, runVars, sinkVars, hmVars>>

NextFde == FdeBegin \/ CfiWrite \/ FdeFinish

SpecFde == InitFde /\ [][NextFde]_vars

\* ------------------------------------------------------ map_reg, call by call
\* the register units map_reg is asked about: four with an x86 name in the
\* table, one (%r8) without
RegUnitSet == {0, 1, 4, 5, 8}

InitMapReg ==
  /\ pc = "map_reg"
  /\ isa = IsaX86_64
  /\ REG_X86_MAP = CacheNone
  /\ returned = NoReturn
  /\ funcs = <<>> /\ layouts = <<>>
  /\ fi = 1 /\ ci = 1
  /\ cfa_def_reg = X86_64_RSP /\ cfa_def_offset = U64Of(8)
  /\ instructions = <<>> /\ fde_entries = <<>>
  /\ writer = <<>> /\ relocs = <<>> /\ entry_pos = <<>>
  /\ racers = {}
  /\ bodies = <<>> /\ generate_debug_info = TRUE
  /\ task = <<>> /\ slots = <<>> /\ completed = 0
  /\ saved_error = NoError /\ cm_ret = NoReturn
  /\ gl_func = <<>> /\ gl_todo = <<>> /\ last_offset = 0 /\ result = <<>>
  /\ run = 1 /\ first = NoReturn
  /\ sink_calls = <<>> /\ func_relocs = <<>> /\ debug_assertions = TRUE
  /\ hm_log = <<>> /\ output_file = "absent" /\ hm_ret = NoReturn

\* one call map_reg(target, reg), on the static the calls before it left
Lookup(target, reg) ==
  /\ pc = "map_reg"
  /\ LET r == map_reg(REG_X86_MAP, target, reg)
     IN  /\ REG_X86_MAP' = r.cache
         /\ returned' = IF r.ok THEN [kind |-> "Ok", reg |-> reg, val |-> r.val]
                        ELSE [kind |-> "Panic", reg |-> reg, val |-> 0]
  /\ isa' = target
  /\ UNCHANGED <<pc, funcs, layouts, fi, ci, cfa_def_reg, cfa_def_offset,
                 instructions, fde_entries, writer, relocs, entry_pos>>
  /\ UNCHANGED <<racers, cmVars, glVars, runVars, sinkVars, hmVars>>

NextMapReg == \E target \in IsaSet, reg \in RegUnitSet : Lookup(target, reg)

SpecMapReg == InitMapReg /\ [][NextMapReg]_vars

\* --------------------------------------------------- compile_module, run twice
\* what a call of compile_module comes to: a return value or a panic
CompileOutcome == [pc |-> pc, cm_ret |-> cm_ret]

\* compile_module on a module, once and again
InitCompile == Init /\ isa = IsaX86_64

\* the first compile is over; the same module is compiled again
CompileAgain ==
  /\ pc \in {"cm_done", "panic"} /\ run = 1
  /\ first' = CompileOutcome
  /\ run' = 2
  /\ pc' = "cm_start"
  /\ task' = <<>> /\ slots' = <<>> /\ completed' = 0
  /\ saved_error' = NoError /\ cm_ret' = NoReturn
  /\ UNCHANGED <<bodies, generate_debug_info, racers, glVars, sinkVars, hmVars>>
  /\ UNCHANGED <<isa, funcs, layouts, REG_X86_MAP, fi, ci, cfa_def_reg, cfa_def_offset,
                 instructions, fde_entries, writer, relocs, entry_pos, returned>>

NextCompile ==
  \/ CmStart
  \/ \E i \in 1..Len(bodies) : TaskRun(i)
  \/ \E i \in 1..Len(bodies) : TaskSkip(i)
  \/ CmJoin
  \/ CompileAgain

SpecCompile == InitCompile /\ [][NextCompile]_vars

\* ------------------------------------------ get_debug_frame_bytes, called twice
\* what a call of get_debug_frame_bytes comes to: where it stopped and what
\* it returned
EncOutcome == [pc |-> pc, returned |-> returned]

\* the first call is over (it returned, or it panicked and the panic was
\* caught); the caller calls again with the same funcs, isa and layouts.
\* The locals of the call are new, the static of map_reg is not.
CallAgain ==
  /\ pc \in {"enc_done", "panic"} /\ run = 1
  /\ first' = EncOutcome
  /\ run' = 2
  /\ pc' = "enc_start"
  /\ fi' = 1 /\ ci' = 1
  /\ cfa_def_reg' = X86_64_RSP /\ cfa_def_offset' = U64Of(8)
  /\ instructions' = <<>> /\ fde_entries' = <<>>
  /\ writer' = <<>> /\ relocs' = <<>> /\ entry_pos' = <<>>
  /\ returned' = NoReturn
  /\ UNCHANGED <<isa, funcs, layouts, REG_X86_MAP, racers, cmVars, glVars, sinkVars, hmVars>>

\* frame.rs lines 268-304 in the first call, on a command not seen before
TranslateFresh == run = 1 /\ TranslateNext

NextTwice ==
  \/ EncStart
  \/ FuncBegin
  \/ TranslateFresh
  \/ TranslateGiven
  \/ FuncEnd
  \/ WriteTable
  \/ CallAgain

SpecTwice == InitEnc /\ [][NextTwice]_vars

\* ---------------------------------------------------- claims, compile_module
\* the functions whose translation or code generation fails
Failing == {i \in 1..Len(bodies) : CompileOne(bodies[i], generate_debug_info).kind = "Err"}

\* the stage at which a failing body fails, and what that stage reports
StageOf(body) == IF body.translate # "ok" THEN "Wasm" ELSE "Codegen"
CauseOf(body) == IF body.translate # "ok" THEN body.translate ELSE body.codegen

\* C2: whatever the order in which the parallel tasks finish, a successful
\* compile_module returns, at index i of each collection, the result computed
\* from function body i: one entry per function in the code and relocation
\* collections, and in the address-transform and frame-layout collections when
\* debug information is generated (none otherwise), as a sequential compile
\* of the same bodies yields.
C2_IndexOrder ==
  cm_ret.kind = "Ok" =>
    LET n == Len(bodies)
        nd == IF generate_debug_info THEN n ELSE 0
    IN  /\ Len(cm_ret.functions) = n
        /\ Len(cm_ret.relocations) = n
        /\ Len(cm_ret.address_transforms) = nd
        /\ Len(cm_ret.frame_layouts) = nd
        /\ \A i \in 1..n :
             LET r == CompileOne(bodies[i], generate_debug_info)
             IN  /\ r.kind = "Ok"
                 /\ cm_ret.functions[i] = r.function
                 /\ cm_ret.relocations[i] = r.relocs
                 /\ generate_debug_info =>
                      /\ cm_ret.address_transforms[i] = r.address_transform.val
                      /\ cm_ret.frame_layouts[i] = r.frame_layout.val

\* two different functions, the second finished first, debug information on
C2_Witness ==
  /\ cm_ret.kind = "Ok"
  /\ generate_debug_info
  /\ Len(bodies) = 2
  /\ bodies[1] = BodySplit /\ bodies[2] = BodyFramed
  /\ slots[2].nth = 1
  /\ Len(cm_ret.relocations[1]) = 1
  /\ Len(cm_ret.frame_layouts[2].commands) = 7

\* the functions whose code generation panics (the relocation sink, or the
\* assertion of get_frame_layout) instead of returning
Panicking == {i \in 1..Len(bodies) : CompileOne(bodies[i], generate_debug_info).kind = "Panic"}

\* the call of compile_module is over: it returned, or a task panicked and
\* the join passed the panic on
CmEnded == pc \notin {"cm_start", "cm_par"}

\* C3 (as stated): when a function fails to translate or to compile,
\* compile_module returns an error without any per-function result, and the
\* error determines the function that failed and the stage it failed at.
C3_ErrorNamesFunction ==
  (CmEnded /\ Failing \cup Panicking # {}) =>
    /\ cm_ret.kind = "Err"
    /\ DOMAIN cm_ret = {"kind", "err"}
    /\ Cardinality({i \in Failing : cm_ret.err.stage = StageOf(bodies[i])
                                    /\ cm_ret.err.cause = CauseOf(bodies[i])}) = 1

\* C3 (amended): when a function fails to translate or to compile, the call
\* of compile_module ends in one of two ways and returns no per-function
\* result in either. It returns an error, which names the stage at which
\* one of the functions that ran and failed did fail and carries what that
\* stage reported, and nothing else (no function); or, when the code
\* generation of a function that ran panicked, it panics and returns nothing.
C3_ErrorNamesStage ==
  (CmEnded /\ Failing \cup Panicking # {}) =>
    \/ /\ cm_ret.kind = "Err"
       /\ DOMAIN cm_ret = {"kind", "err"}
       /\ DOMAIN cm_ret.err = {"stage", "cause"}
       /\ \A i \in 1..Len(task) : task[i] # "panicked"
       /\ \E i \in Failing :
            /\ task[i] = "failed"
            /\ cm_ret.err.stage = StageOf(bodies[i])
            /\ cm_ret.err.cause = CauseOf(bodies[i])
    \/ /\ pc = "panic"
       /\ cm_ret = NoReturn
       /\ \E i \in Panicking : task[i] = "panicked"

\* a function compiled, another failed in code generation, the error returned
C3_Witness ==
  /\ pc = "cm_done"
  /\ Len(bodies) = 2
  /\ task[1] = "done" /\ task[2] = "failed"
  /\ bodies[2] = BodyBadCodegen
  /\ cm_ret.kind = "Err" /\ cm_ret.err.stage = "Codegen"

\* C4: in the pipeline (the parallel compile_module, then
\* get_debug_frame_bytes) no two threads touch REG_X86_MAP between one
\* fork or join and the next, and no parallel task touches it at all.
C4_CacheNotRaced ==
  /\ Cardinality(racers) <= 1
  /\ pc = "cm_par" => racers = {}

\* two functions compiled in parallel, then the cache filled by the encoder
C4_Witness ==
  /\ pc = "enc_done"
  /\ Len(bodies) = 2
  /\ \A i \in 1..2 : task[i] = "done"
  /\ REG_X86_MAP.some
  /\ racers = {MainThread}

\* -------------------------------------------------- claims, get_frame_layout
\* a command of the result repeats a directive of the instruction
SameDirective(cmd, c) ==
  /\ cmd.kind = c.kind
  /\ cmd.reg = c.reg
  /\ IF c.kind = "RegAt" THEN cmd.cfa_offset = c.cfa_offset ELSE cmd.offset = c.offset

\* C9: on an instruction without directives get_frame_layout emits nothing;
\* on one with directives whose end (offset + size) lies beyond the last
\* recorded end (0 at first) it emits one MoveLocationBy of the nonzero
\* difference, then the directives in their order, and records the end; when
\* the end does not lie beyond, it fails and emits nothing.
C9_FrameLayout ==
  [][(pc = "gl_loop" /\ gl_todo # <<>>) =>
       LET t == Head(gl_todo)
           end == t.offset + t.size
           ch == t.inst.changes
           n == Len(result)
       IN  IF ~ch.some
           THEN result' = result /\ last_offset' = last_offset /\ pc' = "gl_loop"
           ELSE IF end <= last_offset
           THEN pc' = "panic" /\ result' = result
           ELSE /\ pc' = "gl_loop"
                /\ Len(result') = n + 1 + Len(ch.val)
                /\ SubSeq(result', 1, n) = result
                /\ end - last_offset # 0
                /\ result'[n + 1] = MoveLocationBy(U64Of(end - last_offset))
                /\ \A k \in 1..Len(ch.val) : SameDirective(result'[n + 1 + k], ch.val[k])
                /\ last_offset' = end]_vars

\* two blocks listed against their offsets; the three instructions (one
\* without directives, one with one, one with two) gave two moves of 2 and 4
C9_Witness ==
  /\ pc = "gl_done"
  /\ Len(gl_func) = 2 /\ gl_func[1].offset > gl_func[2].offset
  /\ Len(result) = 5
  /\ result[1] = MoveLocationBy(U64Of(2))
  /\ result[2].kind = "RegAt" \/ result[3].kind = "RegAt"
  /\ \E k \in 3..4 : result[k] = MoveLocationBy(U64Of(4))

\* ------------------------------------ claims, get_debug_frame_bytes called twice
\* C11: a second call of get_debug_frame_bytes with the funcs, isa and layouts
\* of the first, made on the register cache the first call left, ends as the
\* first did: the same bytes and the same relocation offsets when it returns,
\* a failure when the first failed.
C11_SameOutput ==
  (run = 2 /\ pc \in {"enc_done", "panic"}) => EncOutcome = first

\* both calls returned a table with a function entry whose instructions name
\* registers, the second on a cache the first filled
C11_Witness ==
  /\ run = 2 /\ pc = "enc_done"
  /\ returned.kind = "Ok" /\ first.returned = returned
  /\ REG_X86_MAP.some /\ 4 \in DOMAIN REG_X86_MAP.map
  /\ Len(layouts) >= 1 /\ Len(layouts[1].commands) = 2
  /\ layouts[1].commands[1] = CallFrameAddressAt(4, 16)
  /\ layouts[1].commands[2].kind = "RegAt"

\* ------------------------------------------------ claims, function entries
\* the bytes of entry k of the returned buffer
EntryBytes(k) == SubSeq(returned.bytes, entry_pos[k] + 1, EntryEnd(k))

\* C12: in a returned table, the entry of a function whose layout has no
\* commands is 24 bytes: the length prefix 20, the CIE pointer 0, eight zero
\* bytes for the address, the code length, and neither instruction nor
\* padding; its relocation offset is the entry start + 8; and the entry of
\* the function after it starts right behind and reads as if written alone.
C12_EmptyLayoutEntry ==
  returned.kind = "Ok" =>
    \A i \in 1..Len(funcs) :
      layouts[i].commands = <<>> =>
        /\ EntryBytes(i + 1) = U32Of(20) \o U32Of(0) \o U64Of(0) \o U64Of(funcs[i])
        /\ returned.relocs[i] = entry_pos[i + 1] + 8
        /\ i < Len(funcs) =>
             /\ entry_pos[i + 2] = entry_pos[i + 1] + 24
             /\ EntryBytes(i + 2) =
                  FDEEntry_write(fde_entries[i + 1], <<>>, 0, 8, <<>>).writer

\* a function without commands between the header entry and a function with
\* a two-instruction entry
C12_Witness ==
  /\ returned.kind = "Ok"
  /\ Len(funcs) = 2
  /\ layouts[1].commands = <<>>
  /\ Len(fde_entries[2].instructions) = 2
  /\ returned.relocs = <<32, 56>>
  /\ Len(returned.bytes) = 80

\* ------------------------------------------- claims, instruction encodings
\* bit n of a u64
BitOf(v, n) == IF n > 63 THEN 0 ELSE (v[(n \div 8) + 1] \div (2 ^ (n % 8))) % 2

\* the g-th group of seven bits of a u64, from the least significant
GroupOf(v, g) ==
  BitOf(v, 7 * g) + 2 * BitOf(v, 7 * g + 1) + 4 * BitOf(v, 7 * g + 2)
  + 8 * BitOf(v, 7 * g + 3) + 16 * BitOf(v, 7 * g + 4) + 32 * BitOf(v, 7 * g + 5)
  + 64 * BitOf(v, 7 * g + 6)

\* ULEB128 by its definition: the groups up to the last one that is not
\* zero, each but the last with the high bit set
Uleb128(v) ==
  LET used == {g \in 0..9 : GroupOf(v, g) # 0}
      top == IF used = {} THEN 0 ELSE CHOOSE g \in used : \A h \in used : h <= g
  IN  [k \in 1..(top + 1) |-> GroupOf(v, k - 1) + (IF k - 1 < top THEN 128 ELSE 0)]

\* the instruction is one that must be refused
Unencodable(instr) ==
  \/ instr.kind = "Offset" /\ instr.register >= 64
  \/ instr.kind = "AdvanceLoc"
       /\ ~(instr.delta[1] < 64 /\ instr.delta[2] = 0 /\ instr.delta[3] = 0
            /\ instr.delta[4] = 0)

\* the encoding of the table of section 4.4
Encoding(instr) ==
  CASE instr.kind = "AdvanceLoc" -> <<64 + instr.delta[1]>>
    [] instr.kind = "DefCfa" ->
         <<12>> \o Uleb128(U64Of(instr.register)) \o Uleb128(instr.offset)
    [] instr.kind = "DefCfaRegister" -> <<13>> \o Uleb128(U64Of(instr.register))
    [] instr.kind = "DefCfaOffset" -> <<14>> \o Uleb128(instr.offset)
    [] instr.kind = "Offset" -> <<128 + instr.register>> \o Uleb128(instr.factored_offset)

\* C13: CallFrameInstruction::write appends exactly: for AdvanceLoc with
\* delta < 64 the byte 0x40|delta; for DefCfa 0x0c, the register and the
\* offset in ULEB128; for DefCfaRegister 0x0d and the register; for
\* DefCfaOffset 0x0e and the offset; for Offset with register < 64 the byte
\* 0x80|register and the factored offset. An Offset with register >= 64 (or
\* an AdvanceLoc with delta >= 64) fails and appends nothing.
C13_Encodings ==
  [][(pc = "fde_instrs" /\ ci <= Len(instructions)) =>
       IF Unencodable(instructions[ci])
       THEN pc' = "panic" /\ writer' = writer
       ELSE pc' = "fde_instrs" /\ writer' = writer \o Encoding(instructions[ci])]_vars

\* DefCfa(RSP, 300) and Offset(63, 2^64 - 1) written behind the fixed fields
C13_Witness ==
  /\ pc = "fde_instrs" /\ ci = 3
  /\ instructions = <<DefCfa(X86_64_RSP, U64Of(300)), Offset(63, U64Max)>>
  /\ SubSeq(writer, 25, Len(writer))
       = <<12, 7, 172, 2, 191, 255, 255, 255, 255, 255, 255, 255, 255, 255, 1>>

\* reading a ULEB128: the number of bytes it takes and the u64 it stands for
ReadUleb128(bytes) ==
  LET n == CHOOSE k \in 1..Len(bytes) : bytes[k] < 128 /\ \A j \in 1..(k - 1) : bytes[j] >= 128
      bit(m) == IF m \div 7 < n THEN ((bytes[(m \div 7) + 1] % 128) \div (2 ^ (m % 7))) % 2
                ELSE 0
  IN  [len |-> n,
       val |-> [j \in 1..8 |->
                  bit(8 * j - 8) + 2 * bit(8 * j - 7) + 4 * bit(8 * j - 6)
                  + 8 * bit(8 * j - 5) + 16 * bit(8 * j - 4) + 32 * bit(8 * j - 3)
                  + 64 * bit(8 * j - 2) + 128 * bit(8 * j - 1)]]

\* a register number read as a ULEB128
RegOf(v) == v[1] + 256 * v[2]

\* a reader of call-frame instructions: the opcode in the high two bits or
\* in the whole byte, the operands in ULEB128, DW_CFA_nop skipped
RECURSIVE Decode(_)
Decode(bytes) ==
  IF bytes = <<>> THEN <<>>
  ELSE LET b == Head(bytes)
           rest == Tail(bytes)
       IN  IF b = 0 THEN Decode(rest)
           ELSE IF b >= 64 /\ b < 128 THEN <<AdvanceLoc(U32Of(b - 64))>> \o Decode(rest)
           ELSE IF b >= 128 /\ b < 192
           THEN LET f == ReadUleb128(rest)
                IN  <<Offset(b - 128, f.val)>> \o Decode(SubSeq(rest, f.len + 1, Len(rest)))
           ELSE IF b = 12
           THEN LET r == ReadUleb128(rest)
                    after == SubSeq(rest, r.len + 1, Len(rest))
                    o == ReadUleb128(after)
                IN  <<DefCfa(RegOf(r.val), o.val)>>
                    \o Decode(SubSeq(after, o.len + 1, Len(after)))
           ELSE IF b = 13
           THEN LET r == ReadUleb128(rest)
                IN  <<DefCfaRegister(RegOf(r.val))>>
                    \o Decode(SubSeq(rest, r.len + 1, Len(rest)))
           ELSE IF b = 14
           THEN LET o == ReadUleb128(rest)
                IN  <<DefCfaOffset(o.val)>> \o Decode(SubSeq(rest, o.len + 1, Len(rest)))
           ELSE <<[kind |-> "unknown", opcode |-> b]>>

\* the instruction bytes of the entry just written: from behind the fixed
\* fields to the end the length prefix gives
InstructionBytes ==
  SubSeq(writer, entry_pos[1] + 25, entry_pos[1] + 4 + U32At(writer, entry_pos[1]))

\* the sequences of at most two instructions that FDEEntry::write accepts
AcceptedSeqs ==
  {q \in UNION {[1..n -> InstrSet] : n \in 0..2} :
     \A k \in 1..Len(q) : ~Unencodable(q[k])}

\* C14: the instruction bytes of a written entry, read back by a reader that
\* skips DW_CFA_nop, give the instructions that were written, operands
\* included; and no other accepted sequence (of those of at most two
\* instructions) gives the same entry.
C14_RoundTrip ==
  pc = "fde_done" =>
    /\ Decode(InstructionBytes) = instructions
    /\ \A q \in AcceptedSeqs :
         q # instructions =>
           FDEEntry_write([initial_location |-> U64Of(0), address_range |-> U64Of(funcs[1]),
                           instructions |-> q], <<>>, 0, 8, <<>>).writer # writer

\* DefCfaOffset(0), whose operand is a zero byte, then Offset(RBP, 128),
\* written, padded with nops and read back
C14_Witness ==
  /\ pc = "fde_done"
  /\ instructions = <<DefCfaOffset(U64Of(0)), Offset(X86_64_RBP, U64Of(128))>>
  /\ InstructionBytes = <<14, 0, 134, 128, 1, 0, 0, 0>>
  /\ Decode(InstructionBytes) = instructions

\* ------------------------------------------------------- claims, map_reg
\* C15: a call of map_reg for a target that is not x86 fails, whatever the
\* calls before it were; it never returns a register number.
C15_NonX86Fails ==
  (returned.kind # "none" /\ isa.name # "x86") => returned.kind = "Panic"

\* --------------------------------------------- claims, calling conventions
\* C16: when the layout of some function has a calling convention other than
\* Fast, Cold and SystemV, get_debug_frame_bytes stops at its opening
\* assertions: no command of any function is translated, the register cache
\* is as it was, no entry is built, no byte is written and nothing is returned.
C16_CallConvFailFast ==
  (\E i \in 1..Len(layouts) : layouts[i].call_conv \notin {"Fast", "Cold", "SystemV"}) =>
    /\ pc \in {"enc_start", "panic"}
    /\ ci = 1 /\ instructions = <<>> /\ fde_entries = <<>>
    /\ REG_X86_MAP = CacheNone /\ racers = {}
    /\ writer = <<>> /\ relocs = <<>>
    /\ returned = NoReturn

\* the call failed on the convention of the second function, the seven
\* commands of the first untranslated
C16_Witness ==
  /\ pc = "panic"
  /\ isa.name = "x86"
  /\ Len(layouts) = 2
  /\ layouts[1].call_conv = "SystemV" /\ Len(layouts[1].commands) = 7
  /\ layouts[2].call_conv = "WindowsFastcall"
  /\ instructions = <<>> /\ writer = <<>> /\ REG_X86_MAP = CacheNone

\* ------------------------------------------- claims, debug-info collections
\* C17: when compile_module succeeds, the code and relocation collections
\* have one entry per function; the address-transform and frame-layout
\* collections have one entry per function, at the function's index, when
\* debug information was requested, and are empty when it was not.
C17_DebugCollections ==
  cm_ret.kind = "Ok" =>
    /\ Len(cm_ret.functions) = Len(bodies)
    /\ Len(cm_ret.relocations) = Len(bodies)
    /\ IF generate_debug_info
       THEN /\ DOMAIN cm_ret.address_transforms = DOMAIN bodies
            /\ DOMAIN cm_ret.frame_layouts = DOMAIN bodies
            /\ \A i \in DOMAIN bodies :
                 /\ cm_ret.address_transforms[i].body_len = Len(bodies[i].code)
                 /\ cm_ret.frame_layouts[i].call_conv = bodies[i].call_conv
       ELSE cm_ret.address_transforms = <<>> /\ cm_ret.frame_layouts = <<>>

\* two functions compiled with debug information: the transform of the
\* 6-byte one at index 1, the layout of the Windows one at index 2
C17_Witness ==
  /\ cm_ret.kind = "Ok" /\ generate_debug_info
  /\ bodies = <<BodyFramed, BodyWin>>
  /\ Len(cm_ret.address_transforms) = 2 /\ Len(cm_ret.frame_layouts) = 2
  /\ cm_ret.address_transforms[1].body_len = 6
  /\ Len(cm_ret.address_transforms[1].locations) = 4
  /\ cm_ret.frame_layouts[2].call_conv = "WindowsFastcall"

\* ------------------------------------------- claims, compile_module run twice
\* C18: a second compile of the same module ends as the first did, whatever
\* the order in which the parallel tasks ran in either: the same collections
\* on success, the same error when functions fail.
C18_SameOutcome ==
  (run = 2 /\ pc \in {"cm_done", "panic"}) => CompileOutcome = first

\* ---------------------------------------------------------- claims, RelocSink
\* the external names a target stands for: the memory built-ins, the
\* functions and the library calls
Recognized(name) ==
  \/ name.kind = "LibCall"
  \/ name.kind = "User" /\ (name.namespace = 0 \/ (name.namespace = 1 /\ name.index < 4))

\* the relocation target that stands for a name
TargetFor(name) ==
  IF name.kind = "LibCall" THEN [kind |-> "LibCall", libcall |-> name.libcall]
  ELSE IF name.namespace = 1 /\ name.index < 4
  THEN [kind |-> <<"Memory32Grow", "ImportedMemory32Grow", "Memory32Size",
                   "ImportedMemory32Size">>[name.index + 1]]
  ELSE [kind |-> "UserFunc", index |-> name.index]

\* what a call leaves behind when it records a relocation
Recorded(c) ==
  Append(func_relocs, [reloc |-> c.reloc, reloc_target |-> TargetFor(c.name),
                       offset |-> c.offset, addend |-> c.addend])

\* C19: a reloc_ebb call, a reloc_jt call and a reloc_external call for a
\* name that is neither a function nor a library call panic and leave
\* func_relocs as it was; a reloc_external call for a memory built-in, a
\* function or a library call appends one relocation, behind those recorded
\* before, with the offset, relocation kind and addend of the call and the
\* target that stands for the name. A function name of an unknown namespace
\* panics the same way where debug assertions are compiled in, and is
\* recorded as the function of its index where they are not.
C19_RelocSink ==
  [][(pc = "sink" /\ sink_calls # <<>>) =>
       LET c == Head(sink_calls)
           aborts == pc' = "panic" /\ func_relocs' = func_relocs
           records == pc' = "sink" /\ func_relocs' = Recorded(c)
       IN  IF c.call # "reloc_external" \/ c.name.kind \notin {"User", "LibCall"}
           THEN aborts
           ELSE IF Recognized(c.name) THEN records
           ELSE IF debug_assertions THEN aborts ELSE records]_vars

\* a relocation for function 3 was recorded, then a jump-table relocation
\* stopped the compilation with the list unchanged
C19_Witness ==
  /\ pc = "panic" /\ sink_calls = <<>>
  /\ func_relocs = <<[reloc |-> "Abs8", reloc_target |-> [kind |-> "UserFunc", index |-> 3],
                      offset |-> 9, addend |-> 16]>>

\* ------------------------------------------------- claims, CFA refinement
\* the rule of the header entry: initial_instructions has DefCfa(RSP, 8)
InitialRule == [register |-> X86_64_RSP, offset |-> U64Of(8)]

\* the CFA rule an unwinder holds after the instructions instrs, starting
\* from the rule rule
RECURSIVE ReplayCfa(_, _)
ReplayCfa(instrs, rule) ==
  IF instrs = <<>> THEN rule
  ELSE LET i == Head(instrs)
           next == CASE i.kind = "DefCfa" -> [register |-> i.register, offset |-> i.offset]
                     [] i.kind = "DefCfaOffset" -> [rule EXCEPT !.offset = i.offset]
                     [] i.kind = "DefCfaRegister" -> [rule EXCEPT !.register = i.register]
                     [] OTHER -> rule
       IN  ReplayCfa(Tail(instrs), next)

\* the CFA rule the last CallFrameAddressAt of cmds states, the initial rule
\* when cmds has none
RECURSIVE LastCfa(_)
LastCfa(cmds) ==
  IF cmds = <<>> THEN InitialRule
  ELSE LET c == cmds[Len(cmds)]
       IN  IF c.kind = "CallFrameAddressAt"
           THEN [register |-> X86NameTable(display_regunit(c.reg)),
                 offset |-> AsU64(c.offset)]
           ELSE LastCfa(SubSeq(cmds, 1, Len(cmds) - 1))

\* C20: at every point of the command loop, the instructions pushed so far
\* for the function, replayed on the header entry's rule DefCfa(RSP, 8),
\* give the register and offset of the last CallFrameAddressAt among the
\* commands read so far, (RSP, 8) when there was none; and the instructions
\* of every finished function entry, replayed on that same rule, give the
\* last CallFrameAddressAt of that function's own commands.
C20_CfaRefinement ==
  /\ pc = "cmd_loop" =>
       ReplayCfa(instructions, InitialRule)
         = LastCfa(SubSeq(layouts[fi].commands, 1, ci - 1))
  /\ \A k \in 1..Len(fde_entries) :
       ReplayCfa(fde_entries[k].instructions, InitialRule) = LastCfa(layouts[k].commands)

\* the second function states the rule (RBP, 16) the first function ended
\* with, and gets the full DefCfa(RBP, 16) of its own
C20_Witness ==
  /\ pc = "cmd_loop" /\ fi = 2 /\ ci = 2
  /\ layouts[1].commands = <<CallFrameAddressAt(5, 16)>>
  /\ layouts[2].commands = <<CallFrameAddressAt(5, 16)>>
  /\ fde_entries[1].instructions = <<DefCfa(X86_64_RBP, U64Of(16))>>
  /\ instructions = <<DefCfa(X86_64_RBP, U64Of(16))>>

\* --------------------------- get_frame_layout followed by the command loop
\* the commands of a compiled function reach get_debug_frame_bytes as the
\* layout of the only function of a module (cranelift.rs lines 199-206)
GlPass ==
  /\ pc = "gl_done"
  /\ pc' = "enc_start"
  /\ funcs' = <<LenSum([e \in 1..Len(gl_func) |-> EbbSize(gl_func[e].insts)], Len(gl_func))>>
  /\ layouts' = <<[call_conv |-> "SystemV", commands |-> result]>>
  /\ UNCHANGED <<isa, REG_X86_MAP, fi, ci, cfa_def_reg, cfa_def_offset,
                 instructions, fde_entries, writer, relocs, entry_pos, returned>>
  /\ UNCHANGED <<racers, cmVars, glVars, runVars, sinkVars, hmVars>>

NextTrack ==
  \/ GlSort
  \/ GlInst
  \/ GlReturn
  \/ GlPass
  \/ EncStart
  \/ FuncBegin
  \/ TranslateGiven
  \/ FuncEnd
  \/ WriteTable

SpecTrack == InitLayout /\ [][NextTrack]_vars

\* -------------------------------------------- claims, location bookkeeping
\* the number a little-endian word stands for (the largest integer when it
\* does not fit)
WordValue(w) ==
  IF \E k \in 4..Len(w) : w[k] # 0 THEN 2147483647
  ELSE w[1] + 256 * w[2] + 65536 * w[3]

\* the entries of a sequence that are of the given kind, in their order
RECURSIVE OfKind(_, _)
OfKind(seq, kind) ==
  IF seq = <<>> THEN <<>>
  ELSE (IF Head(seq).kind = kind THEN <<Head(seq)>> ELSE <<>>) \o OfKind(Tail(seq), kind)

\* the sum of the first j deltas of a sequence of moves
RECURSIVE DeltaSum(_, _)
DeltaSum(moves, j) ==
  IF j = 0 THEN 0 ELSE WordValue(moves[j].delta) + DeltaSum(moves, j - 1)

\* the ends (offset + size) of the instructions of the function that carry
\* directives, by increasing block offset
RECURSIVE EndsOf(_)
EndsOf(visited) ==
  IF visited = <<>> THEN <<>>
  ELSE (IF Head(visited).inst.changes.some
        THEN <<Head(visited).offset + Head(visited).size>> ELSE <<>>)
       \o EndsOf(Tail(visited))

ChangeEnds == EndsOf(VisitOrder(SortEbbs(gl_func)))

\* the deltas of the moves are positive and add up to the ends of the
\* instructions with directives, move by move
SumsToEnds(moves) ==
  /\ Len(moves) <= Len(ChangeEnds)
  /\ \A j \in 1..Len(moves) :
       /\ WordValue(moves[j].delta) > 0
       /\ DeltaSum(moves, j) = ChangeEnds[j]

\* C21: every MoveLocationBy get_frame_layout has produced has a positive
\* delta, and the deltas up to and including the j-th add up to the end of
\* the j-th instruction that carries directives; the command loop has pushed
\* one AdvanceLoc for each MoveLocationBy it has read, as the last
\* instruction when the command just read is a MoveLocationBy, and the
\* AdvanceLoc deltas add up to the same ends; so do those of the finished
\* entry.
C21_LocationBookkeeping ==
  /\ pc \in {"gl_loop", "gl_done"} => SumsToEnds(OfKind(result, "MoveLocationBy"))
  /\ pc = "cmd_loop" =>
       LET read == SubSeq(layouts[fi].commands, 1, ci - 1)
           advances == OfKind(instructions, "AdvanceLoc")
       IN  /\ SumsToEnds(OfKind(layouts[fi].commands, "MoveLocationBy"))
           /\ Len(advances) = Len(OfKind(read, "MoveLocationBy"))
           /\ SumsToEnds(advances)
           /\ (ci > 1 /\ read[ci - 1].kind = "MoveLocationBy")
                => instructions[Len(instructions)].kind = "AdvanceLoc"
  /\ \A k \in 1..Len(fde_entries) :
       LET advances == OfKind(fde_entries[k].instructions, "AdvanceLoc")
       IN  /\ Len(advances) = Len(ChangeEnds)
           /\ SumsToEnds(advances)

\* a function of two blocks emitted against their layout order, whose
\* directives end at 2 and 6, went through the command loop: AdvanceLoc(2),
\* AdvanceLoc(4) and the instructions of the directives between and after
C21_Witness ==
  /\ pc = "func_loop" /\ Len(fde_entries) = 1
  /\ Len(gl_func) = 2 /\ gl_func[1].offset > gl_func[2].offset
  /\ ChangeEnds = <<2, 6>>
  /\ OfKind(fde_entries[1].instructions, "AdvanceLoc")
       = <<AdvanceLoc(U32Of(2)), AdvanceLoc(U32Of(4))>>
  /\ Len(fde_entries[1].instructions) > 3

\* ------------------------------------------------- claims, register cache
\* the entries of the cache: none before the map is created
CacheEntries(cache) == IF cache.some THEN cache.map ELSE << >>

\* C22: a call of map_reg for x86, after any calls of map_reg before it,
\* keeps every entry of the cache as it was;
\* for a register with a name of the table it returns the number the table
\* gives that name, on the first lookup and on every later one, and the cache
\* then holds that number for the register and nothing else new; for a
\* register with any other name it fails and the cache holds the entries it
\* held before.
C22_CacheConsistent ==
  [][(pc = "map_reg" /\ isa'.name = "x86") =>
       LET reg == returned'.reg
           name == display_regunit(reg)
           old == CacheEntries(REG_X86_MAP)
           new == CacheEntries(REG_X86_MAP')
       IN  /\ DOMAIN old \subseteq DOMAIN new
           /\ \A r \in DOMAIN old : new[r] = old[r]
           /\ IF name \in X86Names
              THEN /\ returned'.kind = "Ok"
                   /\ returned'.val = X86NameTable(name)
                   /\ DOMAIN new = DOMAIN old \cup {reg}
                   /\ new[reg] = X86NameTable(name)
              ELSE /\ returned'.kind = "Panic"
                   /\ DOMAIN new = DOMAIN old]_vars

\* after %rcx and %rbp were translated and %rcx looked up again, the lookup
\* of %r8 failed and the cache holds the two entries
C22_Witness ==
  /\ pc = "map_reg"
  /\ isa.name = "x86"
  /\ returned = [kind |-> "Panic", reg |-> 8, val |-> 0]
  /\ REG_X86_MAP.some
  /\ DOMAIN REG_X86_MAP.map = {1, 5}
  /\ REG_X86_MAP.map[1] = X86_64_RCX /\ REG_X86_MAP.map[5] = X86_64_RBP

\* ------------------------------------------------ claims, unsigned operands
\* C23: every command the loop accepts pushes operands that are the numbers
\* they stand for: an accepted RegAt has a cfa_offset that is -8 times a
\* non-negative k and pushes Offset with factored offset k, and an accepted
\* CallFrameAddressAt has a non-negative offset and pushes it unchanged in
\* DefCfa or DefCfaOffset; no operand is 2^63 or more.
C23_NoWraparound ==
  [][StepTranslated =>
       /\ CmdRead.kind = "RegAt" =>
            /\ RustDiv(CmdRead.cfa_offset, -8) >= 0
            /\ \A k \in 1..Len(Pushed) :
                 /\ Pushed[k].factored_offset = U64Of(RustDiv(CmdRead.cfa_offset, -8))
                 /\ Pushed[k].factored_offset[8] < 128
       /\ CmdRead.kind = "CallFrameAddressAt" =>
            /\ CmdRead.offset >= 0
            /\ \A k \in 1..Len(Pushed) :
                 Pushed[k].kind \in {"DefCfa", "DefCfaOffset"} =>
                   /\ Pushed[k].offset = U64Of(CmdRead.offset)
                   /\ Pushed[k].offset[8] < 128]_vars

\* ------------------------------------------------- claims, handle_module
\* the stages of handle_module in the order of its text
StageOrder ==
  <<"read_wasm_file", "isa_lookup", "translate", "compile_module", "emit_module">>
  \o (IF generate_debug_info THEN <<"emit_debugsections">> ELSE <<>>)
  \o <<"File::create", "write">>

IsPrefix(p, q) == Len(p) <= Len(q) /\ SubSeq(q, 1, Len(p)) = p

\* handle_module is over: it returned, or a stage panicked
HmEnded == pc \in {"hm_done", "panic"}

\* the stages entered so far are the first stages of the order, each once;
\* the debug sections are not among them when they were not asked for; the
\* output file exists only after File::create succeeded; and compile_module
\* and get_debug_frame_bytes run only within their stages
HmInOrder ==
  /\ IsPrefix(hm_log, StageOrder)
  /\ ~generate_debug_info =>
       /\ \A k \in 1..Len(hm_log) : hm_log[k] # "emit_debugsections"
       /\ pc \notin {"hm_debug", "enc_start", "func_loop", "cmd_loop", "enc_done"}
       /\ fde_entries = <<>> /\ writer = <<>>
  /\ pc \in {"cm_start", "cm_par", "cm_done"} => hm_log[Len(hm_log)] = "compile_module"
  /\ pc \in {"enc_start", "func_loop", "cmd_loop", "enc_done"}
       => hm_log[Len(hm_log)] = "emit_debugsections"
  /\ output_file # "absent" => \E k \in 1..Len(hm_log) : hm_log[k] = "File::create"
  /\ hm_ret.kind # "none" => pc = "hm_done"
  /\ hm_ret.kind = "Ok" => hm_log = StageOrder /\ output_file = "written"

\* handle_module ended before File::create was reached
HmFailedEarly == HmEnded /\ \A k \in 1..Len(hm_log) : hm_log[k] # "File::create"

\* C24 as stated: the stages are entered in order; when a stage before the
\* creation of the file fails, handle_module returns an error, no file is
\* created and nothing runs afterwards; the debug sections are never
\* emitted when they were not asked for.
C24_FailureReturnsError ==
  /\ [](HmInOrder /\ (HmFailedEarly => (hm_ret.kind = "Err" /\ output_file = "absent")))
  /\ [][~HmEnded]_vars

\* C24 (amended): the stages are entered in order; when a stage before the
\* creation of the file fails, handle_module returns an error naming the
\* stage, or the stage panics and handle_module returns nothing; either way
\* no file is created and nothing runs afterwards; the debug sections are
\* never emitted when they were not asked for.
C24_FailureStopsPipeline ==
  /\ [](/\ HmInOrder
        /\ HmFailedEarly =>
             /\ output_file = "absent"
             /\ \/ pc = "hm_done" /\ hm_ret.kind = "Err"
                     /\ hm_ret.stage = hm_log[Len(hm_log)]
                \/ pc = "panic" /\ hm_ret = NoReturn)
  /\ [][~HmEnded]_vars

\* a module of two functions went through compile_module and emit_module,
\* and get_debug_frame_bytes panicked within emit_debugsections: no file
C24_Witness ==
  /\ pc = "panic"
  /\ Len(bodies) = 2 /\ cm_ret.kind = "Ok"
  /\ hm_log = <<"read_wasm_file", "isa_lookup", "translate", "compile_module",
                "emit_module", "emit_debugsections">>
  /\ output_file = "absent" /\ hm_ret = NoReturn

====
